---- MODULE Spec2Model ----
(***************************************************************************)
(* Model of the technical-indicator engine of the ETF analysis server      *)
(* (src/indicators.py).  The indicator functions are pure: a call is one   *)
(* step from the idle state that records the function called (fn), its     *)
(* argument (arg), what it returned or raised (ret) and the indicator       *)
(* functions it invoked on the way (calls).  Each family of functions has  *)
(* its own specification over the same variables.                           *)
(*                                                                         *)
(* The data-access layer (src/cache.py, src/data.py) is stateful: csv is   *)
(* the CSV store of one symbol, cache the in-memory DataCache, now the     *)
(* wall clock in seconds; calls lists the requests a call made to the      *)
(* market-data provider.  last_set is a history variable: for each key the *)
(* last value DataCache.set stored since the last clear().                  *)
(* dcache and timestamps are the two dictionaries of a DataCache kept      *)
(* apart, for the properties that are about their key sets.                *)
(*                                                                         *)
(* Numbers.  Prices and volumes are integers.  A quotient the code forms   *)
(* in floating point is kept exact as a fraction num/den; the values that  *)
(* IEEE division by zero produces (not-a-number, infinity) are modelled     *)
(* explicitly.  Wilder averages over 30 bars need more than 32 bits, so    *)
(* they are kept as little-endian base-BigBase digit sequences.             *)
(***************************************************************************)
EXTENDS Integers, Sequences, FiniteSets, TLC

VARIABLES fn, arg, ret, calls, csv, cache, now, last_set, dcache, timestamps

\* DataCache._cache and DataCache._timestamps as two dictionaries
cacheDicts == <<dcache, timestamps>>

dataVars == <<csv, cache, now, last_set, dcache, timestamps>>

vars == <<fn, arg, ret, calls, csv, cache, now, last_set, dcache, timestamps>>

(***************************************************************************)
(* Bounds of the model.                                                    *)
(***************************************************************************)
\* closes of an enumerated short series lie in 1..MaxPrice
MaxPrice == 3
\* lengths of the enumerated short series: 0..MaxSmallLen
MaxSmallLen == 4
\* periods tried on short series: 1..MaxSmallPeriod
MaxSmallPeriod == 5
\* first close of a generated long series
BasePrice == 200
\* bar-to-bar steps of a generated long series lie in -MaxStep..MaxStep
MaxStep == 2
\* lengths of the generated long series: 0..MaxLen
MaxLen == 31
\* bars given to calculate_obv: at most MaxObvLen, volumes in 0..MaxVolume
MaxObvLen == 3
MaxVolume == 2
\* daily bars given to resample_to_weekly: at most MaxDailyBars, on days
\* 0..MaxDay
MaxDailyBars == 3
MaxDay == 14
\* frames given to the core analysis functions have 0..MaxBars bars
MaxBars == 61

(***************************************************************************)
(* Values.  NaN is pandas' not-a-number; Rat(n, d) is the quotient n/d.    *)
(***************************************************************************)
NaN == [nan |-> TRUE, num |-> 0, den |-> 1]

Rat(n, d) == [nan |-> FALSE, num |-> n, den |-> d]

RECURSIVE SumRange(_, _, _)
\* s[lo] + ... + s[hi]
SumRange(s, lo, hi) == IF lo > hi THEN 0 ELSE s[hi] + SumRange(s, lo, hi - 1)

(***************************************************************************)
(* Input series.                                                           *)
(***************************************************************************)
RECURSIVE SeqsUpTo(_, _)
\* all sequences over S of length 0..n
SeqsUpTo(S, n) ==
    IF n = 0 THEN {<<>>}
    ELSE LET shorter == SeqsUpTo(S, n - 1)
         IN  shorter \cup {Append(s, x) : s \in {t \in shorter : Len(t) = n - 1}, x \in S}

SmallSeries == SeqsUpTo(1..MaxPrice, MaxSmallLen)

\* step patterns: one or two steps, repeated along the series
StepPatterns ==
    LET D == (-MaxStep)..MaxStep
    IN  {<<a>> : a \in D} \cup {<<a, b>> : a \in D, b \in D}

\* the sum of the first j steps of the repeated pattern
CumStep(pat, j) ==
    LET k == Len(pat)
    IN  (j \div k) * SumRange(pat, 1, k) + SumRange(pat, 1, j % k)

PatternSeries(n, pat) == [i \in 1..n |-> BasePrice + CumStep(pat, i - 1)]

LongSeries == {PatternSeries(n, pat) : n \in 0..MaxLen, pat \in StepPatterns}

(***************************************************************************)
(* calculate_ma: data.rolling(window=period).mean().  The window keeps a   *)
(* running sum and an observation count; the mean is produced once the     *)
(* count reaches the window (min_periods = window), not-a-number before.   *)
(***************************************************************************)
RECURSIVE rolling_sum(_, _, _)
rolling_sum(data, period, i) ==
    IF i = 0 THEN 0
    ELSE rolling_sum(data, period, i - 1) + data[i]
         - (IF i > period THEN data[i - period] ELSE 0)

rolling_nobs(period, i) == IF i > period THEN period ELSE i

\* faulty variant: rolling(window=period, min_periods=1), which averages the
\* partial windows of the first period-1 positions
calculate_ma_min_periods_1(data, period) ==
    [i \in 1..Len(data) |->
        Rat(rolling_sum(data, period, i), rolling_nobs(period, i))]

calculate_ma(data, period) ==
    [i \in 1..Len(data) |->
        IF rolling_nobs(period, i) >= period
        THEN Rat(rolling_sum(data, period, i), rolling_nobs(period, i))
        ELSE NaN]

(***************************************************************************)
(* Exact naturals beyond 32 bits: little-endian digit sequences in base    *)
(* BigBase, without leading zero digits (zero is the empty sequence).      *)
(***************************************************************************)
BigBase == 10000

RECURSIVE BigOf(_)
BigOf(n) == IF n = 0 THEN <<>> ELSE <<n % BigBase>> \o BigOf(n \div BigBase)

RECURSIVE BigAddC(_, _, _)
BigAddC(a, b, c) ==
    IF a = <<>> /\ b = <<>> THEN BigOf(c)
    ELSE LET da == IF a = <<>> THEN 0 ELSE Head(a)
             db == IF b = <<>> THEN 0 ELSE Head(b)
             s  == da + db + c
         IN  <<s % BigBase>> \o BigAddC(IF a = <<>> THEN a ELSE Tail(a),
                                        IF b = <<>> THEN b ELSE Tail(b),
                                        s \div BigBase)

BigAdd(a, b) == BigAddC(a, b, 0)

RECURSIVE BigMulC(_, _, _)
BigMulC(a, k, c) ==
    IF a = <<>> THEN BigOf(c)
    ELSE LET s == Head(a) * k + c
         IN  <<s % BigBase>> \o BigMulC(Tail(a), k, s \div BigBase)

\* a times the small natural k
BigMul(a, k) == IF k = 0 THEN <<>> ELSE BigMulC(a, k, 0)

RECURSIVE BigLessFrom(_, _, _)
\* a < b for digit sequences of equal length, from digit i downwards
BigLessFrom(a, b, i) ==
    IF i = 0 THEN FALSE
    ELSE IF a[i] # b[i] THEN a[i] < b[i]
    ELSE BigLessFrom(a, b, i - 1)

BigLess(a, b) ==
    IF Len(a) # Len(b) THEN Len(a) < Len(b) ELSE BigLessFrom(a, b, Len(a))

(***************************************************************************)
(* calculate_rsi.  delta = data.diff() is not-a-number at the first        *)
(* position, where both `where` calls put 0.                               *)
(***************************************************************************)
rsi_gain(data) ==
    [i \in 1..Len(data) |->
        IF i > 1 /\ data[i] - data[i - 1] > 0 THEN data[i] - data[i - 1] ELSE 0]

rsi_loss(data) ==
    [i \in 1..Len(data) |->
        IF i > 1 /\ data[i] - data[i - 1] < 0 THEN -(data[i] - data[i - 1]) ELSE 0]

RECURSIVE ewm_fold(_, _, _, _, _, _)
\* x.ewm(com=period-1, adjust=False).mean(): y[1] = x[1] and
\* y[i] = ((period-1)*y[i-1] + x[i]) / period.  The fold keeps
\* Y = period^(i-2) * y[i-1] and P = period^(i-2), and appends
\* period^(i-1) * y[i] = (period-1)*Y + P*x[i].
ewm_fold(x, period, i, Y, P, acc) ==
    IF i > Len(x) THEN acc
    ELSE LET Y2 == BigAdd(BigMul(Y, period - 1), BigMul(P, x[i]))
         IN  ewm_fold(x, period, i + 1, Y2, BigMul(P, period), Append(acc, Y2))

\* position i holds period^(i-1) times the Wilder average at i
wilder_scaled(x, period) ==
    IF Len(x) = 0 THEN <<>>
    ELSE ewm_fold(x, period, 2, BigOf(x[1]), BigOf(1), <<BigOf(x[1])>>)

\* faulty variant: the average exists from the first observation on
wilder_defined_from_first(period, i) == i >= 1

\* min_periods=period: the average exists from the period-th observation on
wilder_defined(period, i) == i >= period

\* faulty variant: a zero avg_loss is replaced by rs = 0 instead of letting
\* the division run to infinity
rsi_rs_zero_guard(g, l) ==
    IF l = <<>> THEN [kind |-> "fin", g |-> <<>>, l |-> BigOf(1)]
    ELSE [kind |-> "fin", g |-> g, l |-> l]

\* avg_gain / avg_loss in IEEE arithmetic (both scaled alike): x/0 is
\* infinite for x # 0 and not-a-number for x = 0
rsi_rs(g, l) ==
    IF l = <<>>
    THEN IF g = <<>> THEN [kind |-> "nan", g |-> g, l |-> l]
                     ELSE [kind |-> "inf", g |-> g, l |-> l]
    ELSE [kind |-> "fin", g |-> g, l |-> l]

\* 100 - 100 / (1 + rs): 100 for infinite rs, 100*g/(g+l) for rs = g/l
rsi_value(rs) ==
    CASE rs.kind = "nan" -> [nan |-> TRUE, num |-> <<>>, den |-> BigOf(1)]
      [] rs.kind = "inf" -> [nan |-> FALSE, num |-> BigOf(100), den |-> BigOf(1)]
      [] OTHER           -> [nan |-> FALSE, num |-> BigMul(rs.g, 100),
                             den |-> BigAdd(rs.g, rs.l)]

calculate_rsi(data, period) ==
    LET avg_gain == wilder_scaled(rsi_gain(data), period)
        avg_loss == wilder_scaled(rsi_loss(data), period)
    IN  [i \in 1..Len(data) |->
            IF wilder_defined(period, i)
            THEN rsi_value(rsi_rs(avg_gain[i], avg_loss[i]))
            ELSE [nan |-> TRUE, num |-> <<>>, den |-> BigOf(1)]]

\* comparisons of an RSI value with an integer threshold
RsiGT(v, t) == ~v.nan /\ BigLess(BigMul(v.den, t), v.num)

RsiLT(v, t) == ~v.nan /\ BigLess(v.num, BigMul(v.den, t))

RsiEQ(v, t) == ~v.nan /\ v.num = BigMul(v.den, t)

(***************************************************************************)
(* calculate_boll.  std = close.rolling(window=period).std() is the sample *)
(* standard deviation sqrt(sq / den) with sq = period*sum(x^2) - sum(x)^2  *)
(* and den = period*(period-1); a bare window of one observation has none. *)
(* A band value is kept as the linear form a/p + b*std.                    *)
(***************************************************************************)
RECURSIVE rolling_sumsq(_, _, _)
rolling_sumsq(data, period, i) ==
    IF i = 0 THEN 0
    ELSE rolling_sumsq(data, period, i - 1) + data[i] * data[i]
         - (IF i > period THEN data[i - period] * data[i - period] ELSE 0)

rolling_std(data, period) ==
    [i \in 1..Len(data) |->
        IF rolling_nobs(period, i) >= period /\ period > 1
        THEN [nan |-> FALSE,
              sq  |-> period * rolling_sumsq(data, period, i)
                      - rolling_sum(data, period, i) * rolling_sum(data, period, i),
              den |-> period * (period - 1)]
        ELSE [nan |-> TRUE, sq |-> 0, den |-> 1]]

\* a/p + b*std, not-a-number when the mean or the deviation is
Lin(nan, a, p, b) == [nan |-> nan, a |-> IF nan THEN 0 ELSE a,
                      p |-> IF nan THEN 1 ELSE p, b |-> IF nan THEN 0 ELSE b]

\* x / y * 100 for x = a/p + b*std and y = c*std in IEEE arithmetic: y = 0
\* gives not-a-number for x = 0 and an infinity otherwise
boll_quotient(nan, a, p, b, c, std) ==
    LET yzero == c = 0 \/ std.sq = 0
        xzero == a = 0
    IN  [kind |-> IF nan THEN "nan"
                  ELSE IF yzero THEN (IF xzero THEN "nan" ELSE "inf")
                  ELSE "fin",
         a |-> IF nan THEN 0 ELSE a, p |-> IF nan THEN 1 ELSE p,
         b |-> IF nan THEN 0 ELSE b, c |-> IF nan THEN 0 ELSE c,
         sq |-> IF nan THEN 0 ELSE std.sq, den |-> IF nan THEN 1 ELSE std.den]

calculate_boll(close, period, std_dev) ==
    LET middle == calculate_ma(close, period)
        std    == rolling_std(close, period)
        undef(i) == middle[i].nan \/ std[i].nan
    IN  [upper  |-> [i \in 1..Len(close) |->
                        Lin(undef(i), middle[i].num, middle[i].den, std_dev)],
         middle |-> middle,
         lower  |-> [i \in 1..Len(close) |->
                        Lin(undef(i), middle[i].num, middle[i].den, -std_dev)],
         \* (upper - lower) / middle * 100
         bandwidth |-> [i \in 1..Len(close) |->
                        [nan |-> undef(i) \/ (middle[i].num = 0 /\ std[i].sq = 0),
                         inf |-> ~undef(i) /\ middle[i].num = 0 /\ std[i].sq # 0]],
         \* (close - lower) / (upper - lower) * 100, where
         \* close - lower = (p*close - sum)/p + std_dev*std and
         \* upper - lower = 2*std_dev*std
         percent_b |-> [i \in 1..Len(close) |->
                        boll_quotient(undef(i),
                                      middle[i].den * close[i] - middle[i].num,
                                      middle[i].den, std_dev, 2 * std_dev, std[i])]]

(***************************************************************************)
(* calculate_obv.  data is a sequence of bars with close and volume.       *)
(* price_change = close.diff() is not-a-number at the first bar, where     *)
(* both comparisons are false and the direction is 0.                      *)
(***************************************************************************)
\* faulty variant: the falling-close branch (direction -1) is missing
obv_direction_up_only(data, i) ==
    IF i > 1 /\ data[i].close - data[i - 1].close > 0 THEN 1 ELSE 0

obv_direction(data, i) ==
    IF i > 1 /\ data[i].close - data[i - 1].close > 0 THEN 1
    ELSE IF i > 1 /\ data[i].close - data[i - 1].close < 0 THEN -1
    ELSE 0

RECURSIVE obv_cumsum(_, _)
\* (volume * direction).cumsum() up to position i
obv_cumsum(data, i) ==
    IF i = 0 THEN 0
    ELSE obv_cumsum(data, i - 1) + data[i].volume * obv_direction(data, i)

RECURSIVE obv_series(_, _)
obv_series(data, i) ==
    IF i > Len(data) THEN <<>> ELSE <<obv_cumsum(data, i)>> \o obv_series(data, i + 1)

calculate_obv(data) == obv_series(data, 1)

(***************************************************************************)
(* resample_to_weekly.  Dates are day numbers, day 0 a Monday.  'W' bins   *)
(* are the calendar weeks Monday..Sunday, labelled with their Sunday; the  *)
(* resampler makes one bin for every week from the first bar's to the last *)
(* bar's, bars or no bars.                                                 *)
(***************************************************************************)
WeekOf(date) == date \div 7

WeekLabel(w) == 7 * w + 6

\* the bars of week w, in input order
week_rows(data, w) == SelectSeq(data, LAMBDA b : WeekOf(b.date) = w)

RECURSIVE SeqMax(_, _)
SeqMax(s, i) ==
    IF i = 1 THEN s[1]
    ELSE LET m == SeqMax(s, i - 1) IN IF s[i] > m THEN s[i] ELSE m

RECURSIVE SeqMin(_, _)
SeqMin(s, i) ==
    IF i = 1 THEN s[1]
    ELSE LET m == SeqMin(s, i - 1) IN IF s[i] < m THEN s[i] ELSE m

Column(rows, f) == [i \in 1..Len(rows) |-> rows[i][f]]

\* faulty variant: 'close': 'first' in place of 'close': 'last'
weekly_agg_close_first(rows, w) ==
    LET n == Len(rows)
    IN  [date   |-> WeekLabel(w),
         open   |-> IF n = 0 THEN NaN ELSE Rat(rows[1].open, 1),
         high   |-> IF n = 0 THEN NaN ELSE Rat(SeqMax(Column(rows, "high"), n), 1),
         low    |-> IF n = 0 THEN NaN ELSE Rat(SeqMin(Column(rows, "low"), n), 1),
         close  |-> IF n = 0 THEN NaN ELSE Rat(rows[1].close, 1),
         volume |-> Rat(SumRange(Column(rows, "volume"), 1, n), 1)]

\* agg({'open': 'first', 'high': 'max', 'low': 'min', 'close': 'last',
\* 'volume': 'sum'}) of one bin: an empty bin has no first, max, min or last
\* (not-a-number) and sum 0
weekly_agg(rows, w) ==
    LET n == Len(rows)
    IN  [date   |-> WeekLabel(w),
         open   |-> IF n = 0 THEN NaN ELSE Rat(rows[1].open, 1),
         high   |-> IF n = 0 THEN NaN ELSE Rat(SeqMax(Column(rows, "high"), n), 1),
         low    |-> IF n = 0 THEN NaN ELSE Rat(SeqMin(Column(rows, "low"), n), 1),
         close  |-> IF n = 0 THEN NaN ELSE Rat(rows[n].close, 1),
         volume |-> Rat(SumRange(Column(rows, "volume"), 1, n), 1)]

RECURSIVE weekly_bins(_, _, _)
\* the aggregated bins of weeks w..last
weekly_bins(data, w, last) ==
    IF w > last THEN <<>>
    ELSE <<weekly_agg(week_rows(data, w), w)>> \o weekly_bins(data, w + 1, last)

\* faulty variant: the weekly frame without .dropna()
weekly_keepna(rows) == rows

\* .dropna(): rows with a not-a-number in any column are dropped
weekly_dropna(rows) ==
    SelectSeq(rows, LAMBDA r : ~(r.open.nan \/ r.high.nan \/ r.low.nan
                                 \/ r.close.nan \/ r.volume.nan))

resample_to_weekly(data) ==
    IF Len(data) = 0 THEN <<>>
    ELSE LET dates == Column(data, "date")
         IN  weekly_dropna(weekly_bins(data, WeekOf(SeqMin(dates, Len(dates))),
                                       WeekOf(SeqMax(dates, Len(dates)))))

(***************************************************************************)
(* get_indicator_signals.  A dict entry is absent, None, not-a-number or a *)
(* number; dict.get(key, default) replaces an absent entry by the default. *)
(* A comparison with not-a-number is false.  The trend text of the 'ma'    *)
(* entry is kept as the set of the marker words it contains: "duotou"      *)
(* (long side), "shangsheng" (rising), "kongtou" (short side), "xiajiang"  *)
(* (falling).  Signal texts are kept as the name of the indicator.         *)
(***************************************************************************)
Absent == [st |-> "absent", v |-> 0]

None == [st |-> "none", v |-> 0]

NaNValue == [st |-> "nan", v |-> 0]

Num(v) == [st |-> "num", v |-> v]

DictGet(entry, default) == IF entry.st = "absent" THEN Num(default) ELSE entry

IsNotNone(x) == x.st # "none"

LT(x, y) == x.st = "num" /\ y.st = "num" /\ x.v < y.v

GT(x, y) == x.st = "num" /\ y.st = "num" /\ x.v > y.v

signals_boll(signals, indicators) ==
    IF ~indicators.boll.present THEN signals
    ELSE LET pb == DictGet(indicators.boll.percent_b, 50)
         IN  IF ~IsNotNone(pb) THEN signals
             ELSE IF LT(pb, Num(20))
                  THEN [signals EXCEPT !.bullish = Append(@, "BOLL")]
             ELSE IF GT(pb, Num(80))
                  THEN [signals EXCEPT !.bearish = Append(@, "BOLL")]
             ELSE [signals EXCEPT !.neutral = Append(@, "BOLL")]

signals_rsi(signals, indicators) ==
    IF ~indicators.rsi.present THEN signals
    ELSE LET rsi_14 == DictGet(indicators.rsi.rsi_14, 50)
         IN  IF ~IsNotNone(rsi_14) THEN signals
             ELSE IF LT(rsi_14, Num(30))
                  THEN [signals EXCEPT !.bullish = Append(@, "RSI")]
             ELSE IF GT(rsi_14, Num(70))
                  THEN [signals EXCEPT !.bearish = Append(@, "RSI")]
             ELSE [signals EXCEPT !.neutral = Append(@, "RSI")]

signals_macd(signals, indicators) ==
    IF ~indicators.macd.present THEN signals
    ELSE LET dif == DictGet(indicators.macd.dif, 0)
             dea == DictGet(indicators.macd.dea, 0)
         IN  IF ~(IsNotNone(dif) /\ IsNotNone(dea)) THEN signals
             ELSE IF GT(dif, dea) /\ GT(dif, Num(0))
                  THEN [signals EXCEPT !.bullish = Append(@, "MACD")]
             ELSE IF LT(dif, dea) /\ LT(dif, Num(0))
                  THEN [signals EXCEPT !.bearish = Append(@, "MACD")]
             ELSE IF GT(dif, dea)
                  THEN [signals EXCEPT !.bullish = Append(@, "MACD")]
             ELSE [signals EXCEPT !.bearish = Append(@, "MACD")]

signals_ma(signals, indicators) ==
    IF ~indicators.ma.present THEN signals
    ELSE LET trend == indicators.ma.trend
         IN  IF "duotou" \in trend \/ "shangsheng" \in trend
                  THEN [signals EXCEPT !.bullish = Append(@, "MA")]
             ELSE IF "kongtou" \in trend \/ "xiajiang" \in trend
                  THEN [signals EXCEPT !.bearish = Append(@, "MA")]
             ELSE [signals EXCEPT !.neutral = Append(@, "MA")]

\* faulty variant: a majority of one already decides the verdict
signals_overall_majority(signals) ==
    LET bull_count == Len(signals.bullish)
        bear_count == Len(signals.bearish)
    IN  [signals EXCEPT !.overall =
            IF bull_count > bear_count THEN "bullish"
            ELSE IF bear_count > bull_count THEN "bearish"
            ELSE "neutral"]

signals_overall(signals) ==
    LET bull_count == Len(signals.bullish)
        bear_count == Len(signals.bearish)
    IN  [signals EXCEPT !.overall =
            IF bull_count > bear_count + 1 THEN "bullish"
            ELSE IF bear_count > bull_count + 1 THEN "bearish"
            ELSE "neutral"]

get_indicator_signals(indicators) ==
    signals_overall(
        signals_ma(
            signals_macd(
                signals_rsi(
                    signals_boll([bullish |-> <<>>, bearish |-> <<>>,
                                  neutral |-> <<>>, overall |-> ""],
                                 indicators),
                    indicators),
                indicators),
            indicators))

(***************************************************************************)
(* The core analysis functions, from their entry to the point where the    *)
(* bar count has decided whether they can work.  A frame df is a sequence  *)
(* of bars; an empty frame may also lack its columns (pd.DataFrame(), what *)
(* the data layer returns on failure).  A function yields                  *)
(*   out   : what it returned - kind "None", "none" (a divergence of type  *)
(*           'none'), "error" (a dict with an 'error' entry), "pattern"    *)
(*           (a candle description) or "result" (its full analysis) - or   *)
(*           kind "raise" with the exception in detail;                    *)
(*   calls : the indicator functions it invoked, in order.                 *)
(***************************************************************************)
Out(kind, detail, invoked) ==
    [out |-> [kind |-> kind, detail |-> detail], calls |-> invoked]

\* df.tail(n)
Tail_n(df, n) == IF n >= Len(df) THEN df ELSE SubSeq(df, Len(df) - n + 1, Len(df))

calculate_period_score(df) ==
    IF Len(df) < 20 THEN Out("None", "", <<>>)
    ELSE Out("result", "score",
             <<"calculate_ma", "calculate_ma", "calculate_ma">>
             \o (IF Len(df) > 60 THEN <<"calculate_ma">> ELSE <<>>)
             \o <<"calculate_macd", "calculate_rsi", "calculate_boll", "calculate_ma">>
             \o (IF Len(df) > 20 THEN <<"calculate_ma">> ELSE <<>>))

analyze_historical_indicators(df, has_columns, weeks) ==
    LET weeks2    == IF Len(df) < weeks THEN Len(df) ELSE weeks
        period_df == Tail_n(df, weeks2)
    IN  \* period_df['close'] of a frame without columns
        IF ~has_columns THEN Out("raise", "KeyError", <<>>)
        \* period_df['close'].iloc[0] of an empty window
        ELSE IF Len(period_df) = 0
             THEN Out("raise", "IndexError",
                      <<"calculate_rsi", "calculate_boll", "calculate_macd">>)
        ELSE Out("result", "stats",
                 <<"calculate_rsi", "calculate_boll", "calculate_macd">>)

detect_macd_divergence(df, period_type) ==
    IF Len(df) < 30 THEN Out("none", "insufficient", <<>>)
    ELSE Out("result", "divergence", <<"calculate_macd">>)

analyze_weekly_trend(df) ==
    IF Len(df) < 60 THEN Out("error", "insufficient", <<>>)
    ELSE Out("result", "trend",
             <<"calculate_ma", "calculate_ma", "calculate_ma", "calculate_macd",
               "detect_macd_divergence">>)

\* lower_shadow > body * 2 and upper_shadow < body * 0.5
candle_hammer(c3) ==
    LET body         == IF c3.close >= c3.open THEN c3.close - c3.open
                        ELSE c3.open - c3.close
        lower_shadow == (IF c3.open < c3.close THEN c3.open ELSE c3.close) - c3.low
        upper_shadow == c3.high - (IF c3.open > c3.close THEN c3.open ELSE c3.close)
    IN  lower_shadow > body * 2 /\ upper_shadow * 2 < body

candle_engulfing(c2, c3) ==
    /\ c2.close < c2.open
    /\ c3.close > c3.open
    /\ c3.open < c2.close
    /\ c3.close > c2.open

\* abs(c2 body) < (c1 range) * 0.3 and c3.close > (c1.open + c1.close) / 2
candle_morning_star(c1, c2, c3) ==
    /\ c1.close < c1.open
    /\ (IF c2.close >= c2.open THEN c2.close - c2.open ELSE c2.open - c2.close) * 10
          < (c1.high - c1.low) * 3
    /\ c3.close > c3.open
    /\ c3.close * 2 > c1.open + c1.close

detect_bullish_candle_pattern(df) ==
    IF Len(df) < 3 THEN Out("None", "", <<>>)
    ELSE LET c1 == df[Len(df) - 2]
             c2 == df[Len(df) - 1]
             c3 == df[Len(df)]
         IN  IF candle_hammer(c3) THEN Out("pattern", "hammer", <<>>)
             ELSE IF candle_engulfing(c2, c3) THEN Out("pattern", "engulfing", <<>>)
             ELSE IF candle_morning_star(c1, c2, c3)
                  THEN Out("pattern", "morning_star", <<>>)
             ELSE Out("None", "", <<>>)

\* faulty variant: the 30-bar minimum of the sell analysis in place of 60
analyze_daily_buy_signals_min30(df) ==
    IF Len(df) < 30 THEN Out("error", "insufficient", <<>>)
    ELSE Out("result", "buy",
             <<"calculate_ma", "calculate_ma", "calculate_ma", "calculate_ma",
               "calculate_ma", "calculate_ema", "calculate_macd", "calculate_kdj",
               "calculate_rsi", "calculate_boll", "calculate_ma", "calculate_ma",
               "detect_macd_divergence", "detect_bullish_candle_pattern">>)

analyze_daily_buy_signals(df) ==
    IF Len(df) < 60 THEN Out("error", "insufficient", <<>>)
    ELSE Out("result", "buy",
             <<"calculate_ma", "calculate_ma", "calculate_ma", "calculate_ma",
               "calculate_ma", "calculate_ema", "calculate_macd", "calculate_kdj",
               "calculate_rsi", "calculate_boll", "calculate_ma", "calculate_ma",
               "detect_macd_divergence", "detect_bullish_candle_pattern">>)

analyze_daily_sell_signals(df) ==
    IF Len(df) < 30 THEN Out("error", "insufficient", <<>>)
    ELSE Out("result", "sell",
             <<"calculate_ma", "calculate_ma", "calculate_macd", "calculate_kdj",
               "calculate_rsi", "calculate_boll", "detect_macd_divergence">>)

find_support_resistance(df, has_columns, lookback) ==
    LET lookback2 == IF Len(df) < lookback THEN Len(df) ELSE lookback
        recent_df == Tail_n(df, lookback2)
    IN  \* recent_df['close'] of a frame without columns
        IF ~has_columns THEN Out("raise", "KeyError", <<>>)
        \* close.iloc[-1] of an empty window
        ELSE IF Len(recent_df) = 0 THEN Out("raise", "IndexError", <<>>)
        ELSE Out("result", "levels",
                 <<"calculate_ma">>
                 \o (IF Len(recent_df) > 60 THEN <<"calculate_ma">> ELSE <<>>))

(***************************************************************************)
(* Inputs of the calls.                                                    *)
(***************************************************************************)
\* the periods the callers pass to calculate_rsi: 6, 12 and the default 14
RsiPeriods == {6, 12, 14}

ObvBars == [close : 1..MaxPrice, volume : 0..MaxVolume]

ObvFrames == SeqsUpTo(ObvBars, MaxObvLen)

\* the price and volume part of a daily bar
BarShapes ==
    { [open |-> 10, high |-> 12, low |-> 9, close |-> 11, volume |-> 5],
      [open |-> 11, high |-> 14, low |-> 8, close |-> 9, volume |-> 7] }

RECURSIVE DailyFrames(_, _)
\* frames of at most n bars on strictly increasing days from..MaxDay
DailyFrames(from, n) ==
    IF n = 0 THEN {<<>>}
    ELSE {<<>>} \cup
         UNION { { <<[date |-> d, open |-> b.open, high |-> b.high, low |-> b.low,
                      close |-> b.close, volume |-> b.volume]>> \o rest :
                   rest \in DailyFrames(d + 1, n - 1) } :
                 d \in from..MaxDay, b \in BarShapes }

OptNumbers(S) == {Absent, None, NaNValue} \cup {Num(v) : v \in S}

TrendWords == {"duotou", "shangsheng", "kongtou", "xiajiang"}

IndicatorDicts ==
    [boll : {[present |-> FALSE, percent_b |-> Absent]}
            \cup [present : {TRUE}, percent_b : OptNumbers({10, 20, 50, 80, 90})],
     rsi  : {[present |-> FALSE, rsi_14 |-> Absent]}
            \cup [present : {TRUE}, rsi_14 : OptNumbers({25, 30, 50, 70, 75})],
     macd : {[present |-> FALSE, dif |-> Absent, dea |-> Absent]}
            \cup [present : {TRUE}, dif : OptNumbers({-2, -1, 0, 1, 2}),
                  dea : OptNumbers({-2, -1, 0, 1, 2})],
     ma   : {[present |-> FALSE, trend |-> {}]}
            \cup [present : {TRUE}, trend : SUBSET TrendWords]]

\* a frame of bars on consecutive days whose closes are the given series:
\* a bar opens at the previous close
Frame(closes) ==
    [i \in 1..Len(closes) |->
        LET o == IF i = 1 THEN closes[1] ELSE closes[i - 1]
            c == closes[i]
        IN  [date |-> i - 1, open |-> o,
             high |-> (IF o > c THEN o ELSE c) + 1,
             low |-> (IF o < c THEN o ELSE c) - 1,
             close |-> c, volume |-> 1000]]

AnalysisFrames ==
    {Frame(PatternSeries(n, <<a>>)) : n \in 0..MaxBars, a \in (-MaxStep)..MaxStep}

\* the windows the tools ask for: 13, 26 and 52 weeks
Windows == {13, 26, 52}

(***************************************************************************)
(* State machine.  Every call starts from the idle state.                  *)
(***************************************************************************)
(***************************************************************************)
(* Data-access layer: values.  A date is a day number in 1..MaxDate, a bar *)
(* is [date, close], a frame is a sequence of bars.  A cache key is        *)
(* <<name, start, end>>; the keys without a range carry 0, 0.              *)
(***************************************************************************)
\* dates of the bars and of the requested ranges lie in 1..MaxDate
MaxDate == 5
\* closes of downloaded bars lie in 1..MaxClose
MaxClose == 2
\* a downloaded batch has at most MaxBatch bars
MaxBatch == 2
\* the clock advances TickSeconds at a time, up to MaxTime
TickSeconds == 30
MaxTime == 120
\* between historical requests SleepSeconds pass at a time, up to MaxSleepTime
SleepSeconds == 150
MaxSleepTime == 450

SpotKey == <<"etf_spot_em", 0, 0>>

OtherKey == <<"other", 0, 0>>

HistKey(start, end) == <<"etf_hist", start, end>>

\* the days the market traded: the provider has one bar for each
TradingDays == 2..(MaxDate - 2)

\* the explicit ranges requested: one reaching beyond the trading days at
\* both ends, the trading days themselves, one ending a day later, the last
\* trading day alone and the day before the first one alone
HistRanges ==
    {<<1, MaxDate>>, <<2, MaxDate - 2>>, <<2, MaxDate - 1>>,
     <<MaxDate - 2, MaxDate - 2>>, <<1, 1>>}

CacheKeys == {SpotKey, OtherKey} \cup {HistKey(r[1], r[2]) : r \in HistRanges}

\* {}
EmptyDict == [k \in {} |-> 0]

NoEntry == [present |-> FALSE, value |-> <<>>, time |-> 0]

Entry(v, t) == [present |-> TRUE, value |-> v, time |-> t]

Miss == [hit |-> FALSE, value |-> <<>>]

Hit(v) == [hit |-> TRUE, value |-> v]

Init ==
    /\ fn = "idle"
    /\ arg = <<>>
    /\ ret = <<>>
    /\ calls = <<>>
    /\ csv = <<>>
    /\ cache = [k \in CacheKeys |-> NoEntry]
    /\ dcache = EmptyDict
    /\ timestamps = EmptyDict
    /\ now = 0
    /\ last_set = [k \in CacheKeys |-> NoEntry]

Call_calculate_ma ==
    /\ fn = "idle"
    /\ UNCHANGED dataVars
    /\ \E data \in SmallSeries, period \in 1..MaxSmallPeriod :
          /\ fn' = "calculate_ma"
          /\ arg' = [data |-> data, period |-> period]
          /\ ret' = calculate_ma(data, period)
          /\ calls' = <<>>

Call_calculate_rsi ==
    /\ fn = "idle"
    /\ UNCHANGED dataVars
    /\ \/ \E data \in LongSeries, period \in RsiPeriods :
             /\ fn' = "calculate_rsi"
             /\ arg' = [data |-> data, period |-> period]
             /\ ret' = calculate_rsi(data, period)
             /\ calls' = <<>>
       \/ \E data \in SmallSeries, period \in 1..MaxSmallPeriod :
             /\ fn' = "calculate_rsi"
             /\ arg' = [data |-> data, period |-> period]
             /\ ret' = calculate_rsi(data, period)
             /\ calls' = <<>>

\* calculate_boll on the closes of a frame, with the arguments period=20,
\* std_dev=2 every caller uses, and with short windows
Call_calculate_boll ==
    /\ fn = "idle"
    /\ UNCHANGED dataVars
    /\ \/ \E data \in LongSeries :
             /\ fn' = "calculate_boll"
             /\ arg' = [data |-> data, period |-> 20, std_dev |-> 2]
             /\ ret' = calculate_boll(data, 20, 2)
             /\ calls' = <<"calculate_ma">>
       \/ \E data \in SmallSeries, period \in 2..MaxSmallPeriod :
             /\ fn' = "calculate_boll"
             /\ arg' = [data |-> data, period |-> period, std_dev |-> 2]
             /\ ret' = calculate_boll(data, period, 2)
             /\ calls' = <<"calculate_ma">>

Call_calculate_obv ==
    /\ fn = "idle"
    /\ UNCHANGED dataVars
    /\ \E data \in ObvFrames :
          /\ fn' = "calculate_obv"
          /\ arg' = [data |-> data]
          /\ ret' = calculate_obv(data)
          /\ calls' = <<>>

Call_resample_to_weekly ==
    /\ fn = "idle"
    /\ UNCHANGED dataVars
    /\ \E data \in DailyFrames(0, MaxDailyBars) :
          /\ fn' = "resample_to_weekly"
          /\ arg' = [data |-> data]
          /\ ret' = resample_to_weekly(data)
          /\ calls' = <<>>

Call_get_indicator_signals ==
    /\ fn = "idle"
    /\ UNCHANGED dataVars
    /\ \E indicators \in IndicatorDicts :
          /\ fn' = "get_indicator_signals"
          /\ arg' = [indicators |-> indicators]
          /\ ret' = get_indicator_signals(indicators)
          /\ calls' = <<>>

\* what a call of a core analysis function leaves behind
Returned(name, a, r) ==
    /\ fn' = name
    /\ arg' = a
    /\ ret' = r.out
    /\ calls' = r.calls

\* an empty frame comes with or without its columns
Columns(df) == IF Len(df) = 0 THEN BOOLEAN ELSE {TRUE}

Call_calculate_period_score ==
    /\ fn = "idle"
    /\ UNCHANGED dataVars
    /\ \E df \in AnalysisFrames :
          Returned("calculate_period_score", [df |-> df], calculate_period_score(df))

Call_analyze_historical_indicators ==
    /\ fn = "idle"
    /\ UNCHANGED dataVars
    /\ \E df \in AnalysisFrames, weeks \in Windows : \E has_columns \in Columns(df) :
          Returned("analyze_historical_indicators",
                   [df |-> df, has_columns |-> has_columns, weeks |-> weeks],
                   analyze_historical_indicators(df, has_columns, weeks))

Call_analyze_weekly_trend ==
    /\ fn = "idle"
    /\ UNCHANGED dataVars
    /\ \E df \in AnalysisFrames :
          Returned("analyze_weekly_trend", [df |-> df], analyze_weekly_trend(df))

Call_detect_macd_divergence ==
    /\ fn = "idle"
    /\ UNCHANGED dataVars
    /\ \E df \in AnalysisFrames, period_type \in {"daily", "weekly"} :
          Returned("detect_macd_divergence", [df |-> df, period_type |-> period_type],
                   detect_macd_divergence(df, period_type))

Call_analyze_daily_buy_signals ==
    /\ fn = "idle"
    /\ UNCHANGED dataVars
    /\ \E df \in AnalysisFrames :
          Returned("analyze_daily_buy_signals", [df |-> df],
                   analyze_daily_buy_signals(df))

Call_analyze_daily_sell_signals ==
    /\ fn = "idle"
    /\ UNCHANGED dataVars
    /\ \E df \in AnalysisFrames :
          Returned("analyze_daily_sell_signals", [df |-> df],
                   analyze_daily_sell_signals(df))

Call_detect_bullish_candle_pattern ==
    /\ fn = "idle"
    /\ UNCHANGED dataVars
    /\ \E df \in AnalysisFrames :
          Returned("detect_bullish_candle_pattern", [df |-> df],
                   detect_bullish_candle_pattern(df))

Call_find_support_resistance ==
    /\ fn = "idle"
    /\ UNCHANGED dataVars
    /\ \E df \in AnalysisFrames, lookback \in Windows : \E has_columns \in Columns(df) :
          Returned("find_support_resistance",
                   [df |-> df, has_columns |-> has_columns, lookback |-> lookback],
                   find_support_resistance(df, has_columns, lookback))

(***************************************************************************)
(* calculate_period_score, the scoring of a frame of at least 20 bars.     *)
(* The latest indicator values are floats: a number or not-a-number, with  *)
(* which every comparison is false.  A ratio is kept as the pair (n, d) of *)
(* its numerator and its positive denominator.                             *)
(***************************************************************************)
Ratio(n, d) == [st |-> "num", n |-> n, d |-> d]

NaNRatio == [st |-> "nan", n |-> 0, d |-> 1]

\* a / b if b > 0 else 1
ratio_or_one(a, b) ==
    IF GT(b, Num(0))
    THEN IF a.st = "num" THEN Ratio(a.v, b.v) ELSE NaNRatio
    ELSE Ratio(1, 1)

\* r > t / 10 and r < t / 10
RatioGT(r, t) == r.st = "num" /\ 10 * r.n > t * r.d

RatioLT(r, t) == r.st = "num" /\ 10 * r.n < t * r.d

\* ma60 is the 60-bar average only for more than 60 bars, else ma20
score_ma60(n, ma20, ma60) == IF n > 60 THEN ma60 ELSE ma20

\* vol_ma20 is the 20-bar average only for more than 20 bars, else vol_ma5
score_vol_ma20(n, vol_ma5, vol_ma20) == IF n > 20 THEN vol_ma20 ELSE vol_ma5

score_boll(score, percent_b) ==
    IF LT(percent_b, Num(10)) THEN score + 35
    ELSE IF LT(percent_b, Num(20)) THEN score + 25
    ELSE IF LT(percent_b, Num(35)) THEN score + 15
    ELSE IF GT(percent_b, Num(90)) THEN score - 35
    ELSE IF GT(percent_b, Num(80)) THEN score - 25
    ELSE IF GT(percent_b, Num(65)) THEN score - 15
    ELSE score

score_volume(score, volume_ratio, vol_trend, latest_price, ma5) ==
    IF RatioGT(volume_ratio, 20) /\ GT(latest_price, ma5) THEN score + 20
    ELSE IF RatioGT(volume_ratio, 15) /\ GT(latest_price, ma5) THEN score + 15
    ELSE IF RatioGT(volume_ratio, 20) /\ LT(latest_price, ma5) THEN score - 20
    ELSE IF RatioGT(volume_ratio, 15) /\ LT(latest_price, ma5) THEN score - 15
    ELSE IF RatioGT(vol_trend, 12) THEN score + 5
    ELSE IF RatioLT(vol_trend, 8) THEN score - 5
    ELSE score

score_rsi(score, rsi_14) ==
    IF LT(rsi_14, Num(20)) THEN score + 15
    ELSE IF LT(rsi_14, Num(30)) THEN score + 10
    ELSE IF GT(rsi_14, Num(80)) THEN score - 15
    ELSE IF GT(rsi_14, Num(70)) THEN score - 10
    ELSE IF GT(rsi_14, Num(50)) THEN score + 5
    ELSE score - 5

\* faulty variant: the zero-axis crosses weigh 25
score_macd_weight_25(score, dif, dea) ==
    IF GT(dif, dea) /\ GT(dif, Num(0)) THEN score + 25
    ELSE IF GT(dif, dea) /\ LT(dif, Num(0)) THEN score + 8
    ELSE IF LT(dif, dea) /\ LT(dif, Num(0)) THEN score - 25
    ELSE IF LT(dif, dea) /\ GT(dif, Num(0)) THEN score - 8
    ELSE score

score_macd(score, dif, dea) ==
    IF GT(dif, dea) /\ GT(dif, Num(0)) THEN score + 15
    ELSE IF GT(dif, dea) /\ LT(dif, Num(0)) THEN score + 8
    ELSE IF LT(dif, dea) /\ LT(dif, Num(0)) THEN score - 15
    ELSE IF LT(dif, dea) /\ GT(dif, Num(0)) THEN score - 8
    ELSE score

score_ma(score, latest_price, ma5, ma10, ma20, ma60) ==
    IF GT(latest_price, ma5) /\ GT(ma5, ma10) /\ GT(ma10, ma20) /\ GT(ma20, ma60)
    THEN score + 15
    ELSE IF GT(latest_price, ma5) /\ GT(ma5, ma10) /\ GT(ma10, ma20)
    THEN score + 10
    ELSE IF LT(latest_price, ma5) /\ LT(ma5, ma10) /\ LT(ma10, ma20) /\ LT(ma20, ma60)
    THEN score - 15
    ELSE IF LT(latest_price, ma5) /\ LT(ma5, ma10) /\ LT(ma10, ma20)
    THEN score - 10
    ELSE score

\* the score of a frame of v.n >= 20 bars with the latest values v; steps
\* is the running score after each of the five blocks
period_score(v) ==
    LET ma60         == score_ma60(v.n, v.ma20, v.ma60)
        vol_ma20     == score_vol_ma20(v.n, v.vol_ma5, v.vol_ma20)
        volume_ratio == ratio_or_one(v.current_vol, v.vol_ma5)
        vol_trend    == ratio_or_one(v.vol_ma5, vol_ma20)
        s1 == score_boll(0, v.percent_b)
        s2 == score_volume(s1, volume_ratio, vol_trend, v.latest_price, v.ma5)
        s3 == score_rsi(s2, v.rsi_14)
        s4 == score_macd(s3, v.dif, v.dea)
        s5 == score_ma(s4, v.latest_price, v.ma5, v.ma10, v.ma20, ma60)
    IN  [score |-> s5, steps |-> <<s1, s2, s3, s4, s5>>,
         volume_ratio |-> volume_ratio]

Floats(S) == {NaNValue} \cup {Num(x) : x \in S}

\* latest values on each side of every threshold of the scoring
ScoreInputs ==
    [n : {20, 21, 61},
     latest_price : {Num(5)},
     ma5 : Floats({4, 6}), ma10 : {Num(3), Num(7)},
     ma20 : {Num(2), Num(8)}, ma60 : {Num(1), Num(9)},
     dif : Floats({-1, 1}), dea : {Num(-2), Num(2)},
     rsi_14 : Floats({10, 25, 40, 60, 75, 90}),
     percent_b : Floats({5, 15, 30, 50, 70, 85, 95}),
     current_vol : {Num(10), Num(16), Num(21)},
     vol_ma5 : {Num(0), Num(10)},
     vol_ma20 : Floats({8, 13})]

\* calculate_period_score of a frame of at least 20 bars
Score_calculate_period_score ==
    /\ fn = "idle"
    /\ UNCHANGED dataVars
    /\ \E v \in ScoreInputs :
          /\ fn' = "calculate_period_score"
          /\ arg' = v
          /\ ret' = period_score(v)
          /\ calls' = <<>>

(***************************************************************************)
(* get_period_trend_judgment.  The running result is the pair of the score *)
(* and the judgments emitted so far; a judgment text is kept as the name   *)
(* of its block and the points it stands for.                              *)
(***************************************************************************)
Judge(acc, points, block) ==
    [score |-> acc.score + points,
     judgments |-> Append(acc.judgments, [block |-> block, points |-> points])]

judgment_change(acc, change) ==
    IF GT(change, Num(30)) THEN Judge(acc, 30, "change")
    ELSE IF GT(change, Num(15)) THEN Judge(acc, 20, "change")
    ELSE IF GT(change, Num(5)) THEN Judge(acc, 10, "change")
    ELSE IF GT(change, Num(-5)) THEN Judge(acc, 0, "change")
    ELSE IF GT(change, Num(-15)) THEN Judge(acc, -10, "change")
    ELSE IF GT(change, Num(-30)) THEN Judge(acc, -20, "change")
    ELSE Judge(acc, -30, "change")

\* abs(x) of a float
FloatAbs(x) == IF x.st = "num" /\ x.v < 0 THEN Num(-x.v) ELSE x

judgment_drawdown(acc, max_drawdown) ==
    LET drawdown == FloatAbs(max_drawdown)
    IN  IF LT(drawdown, Num(5)) THEN Judge(acc, 20, "drawdown")
        ELSE IF LT(drawdown, Num(10)) THEN Judge(acc, 10, "drawdown")
        ELSE IF LT(drawdown, Num(20)) THEN Judge(acc, 0, "drawdown")
        ELSE IF LT(drawdown, Num(30)) THEN Judge(acc, -10, "drawdown")
        ELSE Judge(acc, -20, "drawdown")

\* up_weeks / total_weeks * 100 > t
WinRateGT(up_weeks, total_weeks, t) == 100 * up_weeks > t * total_weeks

\* faulty variant: the win rate is computed without the total_weeks > 0
\* test, so that a period without up or down weeks divides by zero
judgment_win_rate_unguarded(acc, up_weeks, down_weeks) ==
    LET total_weeks == up_weeks + down_weeks
    IN  IF total_weeks = 0
        THEN [score |-> acc.score,
              judgments |-> Append(acc.judgments,
                                   [block |-> "ZeroDivisionError", points |-> 0])]
        ELSE IF WinRateGT(up_weeks, total_weeks, 65) THEN Judge(acc, 15, "win_rate")
        ELSE IF WinRateGT(up_weeks, total_weeks, 55) THEN Judge(acc, 8, "win_rate")
        ELSE IF WinRateGT(up_weeks, total_weeks, 45) THEN Judge(acc, 0, "win_rate")
        ELSE IF WinRateGT(up_weeks, total_weeks, 35) THEN Judge(acc, -8, "win_rate")
        ELSE Judge(acc, -15, "win_rate")

judgment_win_rate(acc, up_weeks, down_weeks) ==
    LET total_weeks == up_weeks + down_weeks
    IN  IF total_weeks > 0
        THEN IF WinRateGT(up_weeks, total_weeks, 65) THEN Judge(acc, 15, "win_rate")
             ELSE IF WinRateGT(up_weeks, total_weeks, 55) THEN Judge(acc, 8, "win_rate")
             ELSE IF WinRateGT(up_weeks, total_weeks, 45) THEN Judge(acc, 0, "win_rate")
             ELSE IF WinRateGT(up_weeks, total_weeks, 35) THEN Judge(acc, -8, "win_rate")
             ELSE Judge(acc, -15, "win_rate")
        ELSE acc

judgment_rsi(acc, stats) ==
    IF stats.rsi_oversold_count > stats.rsi_overbought_count + 2
    THEN Judge(acc, 15, "rsi")
    ELSE IF stats.rsi_overbought_count > stats.rsi_oversold_count + 2
    THEN Judge(acc, -15, "rsi")
    ELSE IF GT(stats.rsi_avg, Num(55)) THEN Judge(acc, 8, "rsi")
    ELSE IF LT(stats.rsi_avg, Num(45)) THEN Judge(acc, -8, "rsi")
    ELSE acc

judgment_macd(acc, stats) ==
    IF stats.macd_cross_up > stats.macd_cross_down + 1 THEN Judge(acc, 10, "macd")
    ELSE IF stats.macd_cross_down > stats.macd_cross_up + 1 THEN Judge(acc, -10, "macd")
    ELSE acc

judgment_boll(acc, stats) ==
    IF stats.pb_near_lower > stats.pb_near_upper + 2 THEN Judge(acc, 10, "boll")
    ELSE IF stats.pb_near_upper > stats.pb_near_lower + 2 THEN Judge(acc, -10, "boll")
    ELSE acc

get_period_trend_judgment(stats) ==
    LET a0 == [score |-> 0, judgments |-> <<>>]
        a1 == judgment_change(a0, stats.total_change)
        a2 == judgment_drawdown(a1, stats.max_drawdown)
        a3 == judgment_win_rate(a2, stats.up_weeks, stats.down_weeks)
        a4 == judgment_rsi(a3, stats)
        a5 == judgment_macd(a4, stats)
        a6 == judgment_boll(a5, stats)
    IN  [score |-> a6.score, judgments |-> a6.judgments,
         steps |-> <<a1.score, a2.score, a3.score, a4.score, a5.score, a6.score>>]

\* statistics on each side of every threshold of the judgment
PeriodStats ==
    [total_change : Floats({40, 20, 10, 0, -10, -20, -40}),
     max_drawdown : Floats({-2, -7, -15, -25, -35}),
     up_weeks : 0..3, down_weeks : 0..3,
     rsi_oversold_count : {0, 3}, rsi_overbought_count : {0, 3},
     rsi_avg : Floats({40, 50, 60}),
     macd_cross_up : {0, 2}, macd_cross_down : {0, 2},
     pb_near_lower : {0, 3}, pb_near_upper : {0, 3}]

Call_get_period_trend_judgment ==
    /\ fn = "idle"
    /\ UNCHANGED dataVars
    /\ \E stats \in PeriodStats :
          /\ fn' = "get_period_trend_judgment"
          /\ arg' = stats
          /\ ret' = get_period_trend_judgment(stats)
          /\ calls' = <<>>

(***************************************************************************)
(* analyze_weekly_trend on at least 60 weekly bars, from the latest        *)
(* averages and MACD values.  Prices are positive; a slope                 *)
(* (cur - prev) / prev * 100 is kept as a ratio, not-a-number when one of  *)
(* the two averages is.                                                    *)
(***************************************************************************)
ma_slope(cur, prev) ==
    IF cur.st = "num" /\ prev.st = "num"
    THEN Ratio(100 * (cur.v - prev.v), prev.v)
    ELSE NaNRatio

Min2(a, b) == IF a < b THEN a ELSE b

Max2(a, b) == IF a > b THEN a ELSE b

\* faulty variant: the two averages are compared the other way round
trend_regime_ma60_above_ma20(latest_price, ma20, ma60, ma20_slope, ma60_slope) ==
    LET price_above_ma20 == GT(latest_price, ma20)
        price_above_ma60 == GT(latest_price, ma60)
        ma20_above_ma60  == GT(ma60, ma20)
    IN  IF price_above_ma20 /\ price_above_ma60 /\ ma20_above_ma60
        THEN IF RatioGT(ma20_slope, 5) /\ RatioGT(ma60_slope, 0)
             THEN [trend_type |-> "strong_bull", trend_strength |-> 80]
             ELSE [trend_type |-> "bull", trend_strength |-> 60]
        ELSE IF ~price_above_ma20 /\ ~price_above_ma60 /\ ~ma20_above_ma60
        THEN IF RatioLT(ma20_slope, -5) /\ RatioLT(ma60_slope, 0)
             THEN [trend_type |-> "strong_bear", trend_strength |-> -80]
             ELSE [trend_type |-> "bear", trend_strength |-> -60]
        ELSE IF price_above_ma20 /\ ~ma20_above_ma60
        THEN [trend_type |-> "bottom_reversing", trend_strength |-> 30]
        ELSE IF ~price_above_ma20 /\ ma20_above_ma60
        THEN [trend_type |-> "top_pulling_back", trend_strength |-> -30]
        ELSE [trend_type |-> "ranging", trend_strength |-> 0]

\* the regime: trend_type and base trend_strength
trend_regime(latest_price, ma20, ma60, ma20_slope, ma60_slope) ==
    LET price_above_ma20 == GT(latest_price, ma20)
        price_above_ma60 == GT(latest_price, ma60)
        ma20_above_ma60  == GT(ma20, ma60)
    IN  IF price_above_ma20 /\ price_above_ma60 /\ ma20_above_ma60
        THEN IF RatioGT(ma20_slope, 5) /\ RatioGT(ma60_slope, 0)
             THEN [trend_type |-> "strong_bull", trend_strength |-> 80]
             ELSE [trend_type |-> "bull", trend_strength |-> 60]
        ELSE IF ~price_above_ma20 /\ ~price_above_ma60 /\ ~ma20_above_ma60
        THEN IF RatioLT(ma20_slope, -5) /\ RatioLT(ma60_slope, 0)
             THEN [trend_type |-> "strong_bear", trend_strength |-> -80]
             ELSE [trend_type |-> "bear", trend_strength |-> -60]
        ELSE IF price_above_ma20 /\ ~ma20_above_ma60
        THEN [trend_type |-> "bottom_reversing", trend_strength |-> 30]
        ELSE IF ~price_above_ma20 /\ ma20_above_ma60
        THEN [trend_type |-> "top_pulling_back", trend_strength |-> -30]
        ELSE [trend_type |-> "ranging", trend_strength |-> 0]

\* faulty variant: the MACD confirmation weighs 25
trend_macd_weight_25(trend_strength, dif, dea) ==
    IF GT(dif, Num(0)) /\ GT(dif, dea) THEN Min2(100, trend_strength + 25)
    ELSE IF LT(dif, Num(0)) /\ LT(dif, dea) THEN Max2(-100, trend_strength - 25)
    ELSE trend_strength

\* the MACD confirmation
trend_macd(trend_strength, dif, dea) ==
    IF GT(dif, Num(0)) /\ GT(dif, dea) THEN Min2(100, trend_strength + 15)
    ELSE IF LT(dif, Num(0)) /\ LT(dif, dea) THEN Max2(-100, trend_strength - 15)
    ELSE trend_strength

trend_operation(trend_strength) ==
    IF trend_strength >= 60 THEN "long_only"
    ELSE IF trend_strength >= 30 THEN "lean_long"
    ELSE IF trend_strength <= -60 THEN "stay_out"
    ELSE IF trend_strength <= -30 THEN "reduce"
    ELSE "wait"

weekly_trend(v) ==
    LET ma20_slope == ma_slope(v.ma20, v.ma20_prev)
        ma60_slope == ma_slope(v.ma60, v.ma60_prev)
        regime     == trend_regime(v.latest_price, v.ma20, v.ma60,
                                   ma20_slope, ma60_slope)
        strength   == trend_macd(regime.trend_strength, v.dif, v.dea)
    IN  [trend_type |-> regime.trend_type, base |-> regime.trend_strength,
         trend_strength |-> strength, operation |-> trend_operation(strength),
         ma20_slope |-> ma20_slope, ma60_slope |-> ma60_slope]

\* latest values on each side of every comparison of the trend analysis
TrendInputs ==
    [latest_price : {Num(1000)},
     ma20 : Floats({800, 1000, 1200}),
     ma20_prev : Floats({796, 797, 804, 805, 1194, 1207}),
     ma60 : Floats({600, 800, 900, 1000, 1100, 1200, 1400}),
     ma60_prev : Floats({599, 600, 601, 1099, 1101, 1400, 1401}),
     dif : Floats({-1, 0, 1}), dea : Floats({-2, 2})]

\* analyze_weekly_trend of a frame of at least 60 bars
Trend_analyze_weekly_trend ==
    /\ fn = "idle"
    /\ UNCHANGED dataVars
    /\ \E v \in TrendInputs :
          /\ fn' = "analyze_weekly_trend"
          /\ arg' = v
          /\ ret' = weekly_trend(v)
          /\ calls' = <<>>

(***************************************************************************)
(* analyze_daily_buy_signals and analyze_daily_sell_signals past their bar *)
(* minimum, from the latest indicator values.  Prices are integers in      *)
(* units of 0.00001; an optional argument is None or a float.  The running *)
(* result is the strength so far and the checks that fired.                *)
(***************************************************************************)
Fire(acc, points, check) ==
    [strength |-> acc.strength + points,
     fired |-> Append(acc.fired, [check |-> check, points |-> points])]

\* Python truth of an optional float: None and 0 are false
Truthy(x) == x.st = "nan" \/ (x.st = "num" /\ x.v # 0)

AbsInt(x) == IF x < 0 THEN -x ELSE x

\* abs(price - level) / level < t / 1000
NearLevel(price, level, t) ==
    /\ price.st = "num" /\ level.st = "num"
    /\ IF level.v > 0 THEN 1000 * AbsInt(price.v - level.v) < t * level.v
       ELSE level.v < 0

LE(x, y) == x.st = "num" /\ y.st = "num" /\ x.v <= y.v

GE(x, y) == x.st = "num" /\ y.st = "num" /\ x.v >= y.v

buy_position(acc, v) ==
    LET a1 == IF Truthy(v.weekly_support) /\ NearLevel(v.latest_price, v.weekly_support, 20)
              THEN Fire(acc, 20, "weekly_support") ELSE acc
        a2 == IF Truthy(v.weekly_ma20) /\ NearLevel(v.latest_price, v.weekly_ma20, 20)
              THEN Fire(a1, 15, "weekly_ma20") ELSE a1
    IN  IF NearLevel(v.latest_price, v.ema50, 15) THEN Fire(a2, 10, "ema50") ELSE a2

buy_macd(acc, v) ==
    LET a1 == IF v.divergence.type = "bottom"
              THEN Fire(acc, IF v.divergence.strength = "strong" THEN 25 ELSE 15,
                        "divergence")
              ELSE acc
    IN  IF GT(v.dif, v.dea) /\ LE(v.prev_dif, v.prev_dea) THEN Fire(a1, 15, "macd_cross")
        ELSE IF GT(v.dif, v.prev_dif) /\ LT(v.dif, v.dea) THEN Fire(a1, 10, "macd_turn")
        ELSE a1

buy_kdj(acc, v) ==
    LET kdj_golden_cross == GT(v.k, v.d) /\ LE(v.prev_k, v.prev_d)
        a1 == IF LT(v.j, Num(20)) THEN Fire(acc, 10, "kdj_oversold") ELSE acc
    IN  IF kdj_golden_cross /\ LT(v.j, Num(30)) THEN Fire(a1, 20, "kdj_cross")
        ELSE IF kdj_golden_cross THEN Fire(a1, 10, "kdj_cross")
        ELSE a1

buy_rsi(acc, v) ==
    IF LT(v.rsi_14, Num(30)) THEN Fire(acc, 15, "rsi")
    ELSE IF LT(v.rsi_14, Num(40)) THEN Fire(acc, 5, "rsi")
    ELSE acc

buy_boll(acc, v) ==
    IF LT(v.percent_b, Num(10)) THEN Fire(acc, 15, "boll")
    ELSE IF LT(v.percent_b, Num(20)) THEN Fire(acc, 10, "boll")
    ELSE acc

buy_volume(acc, v) ==
    LET volume_ratio == ratio_or_one(v.current_vol, v.vol_ma5)
    IN  IF RatioLT(volume_ratio, 6) THEN Fire(acc, 10, "volume")
        ELSE IF RatioLT(volume_ratio, 8) THEN Fire(acc, 5, "volume")
        ELSE acc

buy_candle(acc, v) == IF v.candle_signal THEN Fire(acc, 10, "candle") ELSE acc

\* faulty variant: the >= 50 band is tested before the >= 70 band
signal_band_50_first(signal_strength) ==
    IF signal_strength >= 50 THEN "fairly_strong"
    ELSE IF signal_strength >= 70 THEN "strong"
    ELSE IF signal_strength >= 30 THEN "moderate"
    ELSE "insufficient"

\* the recommendation of a capped strength
signal_band(signal_strength) ==
    IF signal_strength >= 70 THEN "strong"
    ELSE IF signal_strength >= 50 THEN "fairly_strong"
    ELSE IF signal_strength >= 30 THEN "moderate"
    ELSE "insufficient"

daily_buy_signals(v) ==
    LET a0 == [strength |-> 0, fired |-> <<>>]
        a7 == buy_candle(buy_volume(buy_boll(buy_rsi(buy_kdj(buy_macd(
                  buy_position(a0, v), v), v), v), v), v), v)
        signal_strength == Min2(100, a7.strength)
    IN  [signal_strength |-> signal_strength, uncapped |-> a7.strength,
         fired |-> a7.fired, recommendation |-> signal_band(signal_strength)]

sell_resistance(acc, v) ==
    IF /\ Truthy(v.weekly_resistance)
       /\ v.latest_price.st = "num" /\ v.weekly_resistance.st = "num"
       /\ 100 * v.latest_price.v >= 98 * v.weekly_resistance.v
    THEN Fire(acc, 20, "weekly_resistance") ELSE acc

sell_macd(acc, v) ==
    LET a1 == IF v.divergence.type = "top"
              THEN Fire(acc, IF v.divergence.strength = "strong" THEN 25 ELSE 15,
                        "divergence")
              ELSE acc
    IN  IF LT(v.dif, v.dea) /\ GE(v.prev_dif, v.prev_dea) THEN Fire(a1, 15, "macd_cross")
        ELSE IF LT(v.dif, v.prev_dif) /\ GT(v.dif, v.dea) THEN Fire(a1, 10, "macd_turn")
        ELSE a1

sell_kdj(acc, v) ==
    LET dead_cross == LT(v.k, v.d) /\ GE(v.prev_k, v.prev_d)
        a1 == IF GT(v.j, Num(80)) THEN Fire(acc, 10, "kdj_overbought") ELSE acc
    IN  IF dead_cross /\ GT(v.j, Num(70)) THEN Fire(a1, 20, "kdj_cross")
        ELSE IF dead_cross THEN Fire(a1, 10, "kdj_cross")
        ELSE a1

sell_rsi(acc, v) ==
    IF GT(v.rsi_14, Num(80)) THEN Fire(acc, 15, "rsi")
    ELSE IF GT(v.rsi_14, Num(70)) THEN Fire(acc, 10, "rsi")
    ELSE acc

sell_boll(acc, v) ==
    IF GT(v.percent_b, Num(95)) THEN Fire(acc, 15, "boll")
    ELSE IF GT(v.percent_b, Num(80)) THEN Fire(acc, 10, "boll")
    ELSE acc

sell_ma(acc, v) ==
    LET a1 == IF LT(v.latest_price, v.ma5) THEN Fire(acc, 10, "ma5") ELSE acc
    IN  IF LT(v.latest_price, v.ma10) THEN Fire(a1, 10, "ma10") ELSE a1

\* round(num / den, 4) of a price in units of 0.00001: the nearest multiple
\* of 10 units, a tie going to the even one
round_4(num, den) ==
    LET q == num \div (10 * den)
        r == num % (10 * den)
    IN  10 * (IF 2 * r > 10 * den \/ (2 * r = 10 * den /\ q % 2 = 1)
              THEN q + 1 ELSE q)

\* (latest_price - entry_price) / entry_price * 100 >= t
ProfitGE(latest_price, entry_price, t) ==
    IF entry_price > 0 THEN 100 * (latest_price - entry_price) >= t * entry_price
    ELSE 100 * (latest_price - entry_price) <= t * entry_price

\* faulty variant: the breakeven rule locks in the latest close
sell_exits_lock_close(v) ==
    IF Truthy(v.entry_price)
    THEN [stop_loss |-> Num(round_4(96 * v.entry_price.v, 100)),
          take_profit |->
              IF ProfitGE(v.latest_price.v, v.entry_price.v, 15)
              THEN Num(round_4(110 * v.entry_price.v, 100))
              ELSE IF ProfitGE(v.latest_price.v, v.entry_price.v, 10)
              THEN v.latest_price
              ELSE None]
    ELSE [stop_loss |-> None, take_profit |-> None]

\* stop_loss and take_profit
sell_exits(v) ==
    IF Truthy(v.entry_price)
    THEN [stop_loss |-> Num(round_4(96 * v.entry_price.v, 100)),
          take_profit |->
              IF ProfitGE(v.latest_price.v, v.entry_price.v, 15)
              THEN Num(round_4(110 * v.entry_price.v, 100))
              ELSE IF ProfitGE(v.latest_price.v, v.entry_price.v, 10)
              THEN v.entry_price
              ELSE None]
    ELSE [stop_loss |-> None, take_profit |-> None]

daily_sell_signals(v) ==
    LET a0 == [strength |-> 0, fired |-> <<>>]
        a6 == sell_ma(sell_boll(sell_rsi(sell_kdj(sell_macd(
                  sell_resistance(a0, v), v), v), v), v), v)
        exits == sell_exits(v)
        signal_strength == Min2(100, a6.strength)
    IN  [signal_strength |-> signal_strength, uncapped |-> a6.strength,
         fired |-> a6.fired, recommendation |-> signal_band(signal_strength),
         stop_loss |-> exits.stop_loss, take_profit |-> exits.take_profit]

\* what detect_macd_divergence found
Divergences ==
    {[type |-> "none", strength |-> "absent"]}
    \cup [type : {"top", "bottom"}, strength : {"strong", "weak"}]

\* the latest close of the daily frame, 1.00000
LatestClose == Num(100000)

\* latest values on each side of every comparison of the buy analysis
BuyInputs ==
    [latest_price : {LatestClose},
     weekly_support : {None, Num(99000), Num(90000)},
     weekly_ma20 : {None, Num(101000)},
     ema50 : {Num(101000), Num(110000)},
     divergence : {d \in Divergences : d.type # "top"},
     dif : {Num(1)}, dea : Floats({0, 2}), prev_dif : {Num(0), Num(2)},
     prev_dea : {Num(1)},
     k : {Num(1)}, d : {Num(0), Num(2)}, prev_k : {Num(0), Num(2)},
     prev_d : {Num(1)}, j : {Num(10), Num(25), Num(50)},
     rsi_14 : {Num(25), Num(35), Num(50)},
     percent_b : {Num(5), Num(15), Num(50)},
     current_vol : {Num(5), Num(7), Num(10)}, vol_ma5 : {Num(10)},
     candle_signal : BOOLEAN]

\* entry prices: none, 0, a tiny one, and ones with a profit of 23%, 11%,
\* 5% and a loss
EntryPrices == {None, Num(0), Num(2), Num(81234), Num(90001), Num(95000), Num(110000)}

\* latest values on each side of every comparison of the sell analysis
SellInputs ==
    [latest_price : {LatestClose},
     weekly_resistance : {None, Num(100000), Num(110000)},
     entry_price : EntryPrices,
     divergence : {d \in Divergences : d.type # "bottom"},
     dif : {Num(1)}, dea : Floats({0, 2}), prev_dif : {Num(0), Num(2)},
     prev_dea : {Num(1)},
     k : {Num(1)}, d : {Num(0), Num(2)}, prev_k : {Num(0), Num(2)},
     prev_d : {Num(1)}, j : {Num(90), Num(75), Num(50)},
     rsi_14 : {Num(85), Num(75), Num(50)},
     percent_b : {Num(97), Num(85), Num(50)},
     ma5 : {Num(90000), Num(110000)}, ma10 : {Num(90000), Num(110000)}]

\* analyze_daily_buy_signals of a frame of at least 60 bars
Signals_analyze_daily_buy_signals ==
    /\ fn = "idle"
    /\ UNCHANGED dataVars
    /\ \E v \in BuyInputs :
          /\ fn' = "analyze_daily_buy_signals"
          /\ arg' = v
          /\ ret' = daily_buy_signals(v)
          /\ calls' = <<>>

\* analyze_daily_sell_signals of a frame of at least 30 bars
Signals_analyze_daily_sell_signals ==
    /\ fn = "idle"
    /\ UNCHANGED dataVars
    /\ \E v \in SellInputs :
          /\ fn' = "analyze_daily_sell_signals"
          /\ arg' = v
          /\ ret' = daily_sell_signals(v)
          /\ calls' = <<>>

(***************************************************************************)
(* find_support_resistance on a frame with at least one bar.  A bar has a  *)
(* high, a low and a close; positions count from 1.                        *)
(***************************************************************************)
MaxLevelBars == 6

MaxZigzagBars == 15

RECURSIVE InsertAsc(_, _)
\* s ascending, with x inserted in its place
InsertAsc(s, x) ==
    IF s = <<>> THEN <<x>>
    ELSE IF x <= Head(s) THEN <<x>> \o s
    ELSE <<Head(s)>> \o InsertAsc(Tail(s), x)

RECURSIVE SortAsc(_)
\* list.sort()
SortAsc(s) == IF s = <<>> THEN <<>> ELSE InsertAsc(SortAsc(Tail(s)), Head(s))

\* list.sort(reverse=True)
SortDesc(s) == LET a == SortAsc(s) IN [i \in 1..Len(a) |-> a[Len(a) + 1 - i]]

\* s[:3]
First3(s) == IF Len(s) > 3 THEN SubSeq(s, 1, 3) ELSE s

\* the loop over range(2, len(recent_df) - 2): the local highs, in order
local_highs(high) ==
    LET at == SelectSeq([i \in 1..Len(high) |-> i],
                        LAMBDA i : /\ i >= 3 /\ i <= Len(high) - 2
                                   /\ high[i] > high[i - 1] /\ high[i] > high[i - 2]
                                   /\ high[i] > high[i + 1] /\ high[i] > high[i + 2])
    IN  [k \in 1..Len(at) |-> high[at[k]]]

\* the local lows, in order
local_lows(low) ==
    LET at == SelectSeq([i \in 1..Len(low) |-> i],
                        LAMBDA i : /\ i >= 3 /\ i <= Len(low) - 2
                                   /\ low[i] < low[i - 1] /\ low[i] < low[i - 2]
                                   /\ low[i] < low[i + 1] /\ low[i] < low[i + 2])
    IN  [k \in 1..Len(at) |-> low[at[k]]]

sr_supports(lows, latest_price) ==
    SortDesc(SelectSeq(lows, LAMBDA l : l < latest_price))

\* faulty variant: the resistances are left in the order of the bars
sr_resistances_unsorted(highs, latest_price) ==
    SelectSeq(highs, LAMBDA h : h > latest_price)

sr_resistances(highs, latest_price) ==
    SortAsc(SelectSeq(highs, LAMBDA h : h > latest_price))

support_resistance(df, lookback) ==
    LET lookback2    == IF Len(df) < lookback THEN Len(df) ELSE lookback
        recent_df    == Tail_n(df, lookback2)
        high         == Column(recent_df, "high")
        low          == Column(recent_df, "low")
        latest_price == recent_df[Len(recent_df)].close
        supports     == sr_supports(local_lows(low), latest_price)
        resistances  == sr_resistances(local_highs(high), latest_price)
        low_min      == SeqMin(low, Len(low))
        high_max     == SeqMax(high, Len(high))
    IN  [supports    |-> IF supports # <<>> THEN First3(supports) ELSE <<low_min>>,
         resistances |-> IF resistances # <<>> THEN First3(resistances)
                         ELSE <<high_max>>,
         nearest_support    |-> IF supports # <<>> THEN supports[1] ELSE low_min,
         nearest_resistance |-> IF resistances # <<>> THEN resistances[1]
                                ELSE high_max,
         period_high |-> high_max, period_low |-> low_min]

\* short frames: every series of highs in 4..6, the lows mirroring the
\* highs in 1..3, every latest close within the last bar
LevelFrames ==
    UNION { { [i \in 1..Len(h) |->
                 [high |-> h[i] + 3, low |-> 4 - h[Len(h) + 1 - i],
                  close |-> IF i = Len(h) THEN c ELSE 4]] :
              c \in (4 - h[1])..(h[Len(h)] + 3) } :
            h \in SeqsUpTo(1..3, MaxLevelBars) \ {<<>>} }

\* long frames: a peak and a trough every third bar, drifting by d per
\* three bars, around a latest close
ZigzagFrames ==
    { [i \in 1..n |->
          [high  |-> 100 + (CASE i % 3 = 0 -> 8 [] i % 3 = 1 -> 4 [] OTHER -> 5)
                     + d * (i \div 3),
           low   |-> 60 - (CASE i % 3 = 0 -> 8 [] i % 3 = 1 -> 4 [] OTHER -> 5)
                     + e * (i \div 3),
           close |-> c]] :
      n \in 5..MaxZigzagBars, d \in {-1, 0, 1}, e \in {-1, 0, 1},
      c \in {52, 54, 80, 106, 110} }

\* the lookback of the tools is 52; shorter ones cut the frame
Lookbacks == {5, 8, 52}

\* find_support_resistance of a frame with at least one bar
Levels_find_support_resistance ==
    /\ fn = "idle"
    /\ UNCHANGED dataVars
    /\ \E df \in LevelFrames \cup ZigzagFrames, lookback \in Lookbacks :
          /\ fn' = "find_support_resistance"
          /\ arg' = [df |-> df, lookback |-> lookback]
          /\ ret' = support_resistance(df, lookback)
          /\ calls' = <<>>

(***************************************************************************)
(* detect_macd_divergence on at least 30 bars.  dif is the DIF series      *)
(* calculate_macd returns for the closes, one (scaled) number per bar; the *)
(* detector reads it only at the local extremes of the closes.             *)
(***************************************************************************)
divergence_lookback(period_type) == IF period_type = "daily" THEN 20 ELSE 12

\* faulty variant: a local high is tested against its left neighbours only
divergence_high_at_left_only(recent_close, i) ==
    /\ i >= 3 /\ i <= Len(recent_close) - 2
    /\ recent_close[i] > recent_close[i - 1] /\ recent_close[i] > recent_close[i - 2]

\* position i of the window is a local high of the closes
divergence_high_at(recent_close, i) ==
    /\ i >= 3 /\ i <= Len(recent_close) - 2
    /\ recent_close[i] > recent_close[i - 1] /\ recent_close[i] > recent_close[i - 2]
    /\ recent_close[i] > recent_close[i + 1] /\ recent_close[i] > recent_close[i + 2]

\* position i of the window is a local low of the closes
divergence_low_at(recent_close, i) ==
    /\ i >= 3 /\ i <= Len(recent_close) - 2
    /\ recent_close[i] < recent_close[i - 1] /\ recent_close[i] < recent_close[i - 2]
    /\ recent_close[i] < recent_close[i + 1] /\ recent_close[i] < recent_close[i + 2]

macd_divergence(close, dif, period_type) ==
    LET lookback     == divergence_lookback(period_type)
        recent_close == Tail_n(close, lookback)
        recent_dif   == Tail_n(dif, lookback)
        positions    == [i \in 1..Len(recent_close) |-> i]
        high_at      == SelectSeq(positions,
                                  LAMBDA i : divergence_high_at(recent_close, i))
        low_at       == SelectSeq(positions,
                                  LAMBDA i : divergence_low_at(recent_close, i))
        nh == Len(high_at)
        nl == Len(low_at)
    IN  IF /\ nh >= 2
           /\ recent_close[high_at[nh]] > recent_close[high_at[nh - 1]]
           /\ recent_dif[high_at[nh]] < recent_dif[high_at[nh - 1]]
        THEN [type |-> "top",
              strength |-> IF 10 * recent_dif[high_at[nh]]
                                 < 8 * recent_dif[high_at[nh - 1]]
                           THEN "strong" ELSE "weak"]
        ELSE IF /\ nl >= 2
                /\ recent_close[low_at[nl]] < recent_close[low_at[nl - 1]]
                /\ recent_dif[low_at[nl]] > recent_dif[low_at[nl - 1]]
        THEN [type |-> "bottom",
              strength |-> IF 10 * recent_dif[low_at[nl]]
                                 > 12 * recent_dif[low_at[nl - 1]]
                           THEN "strong" ELSE "weak"]
        ELSE [type |-> "none", strength |-> "absent"]

\* repeated patterns of 1, 2 or 4 steps
DivergencePatterns ==
    LET D == (-MaxStep)..MaxStep
    IN  StepPatterns \cup {<<a, b, c, d>> : a \in D, b \in D, c \in D, d \in D}

\* DIF series: straight lines through -100, 0 or 100
DifSeries(n) ==
    {[i \in 1..n |-> off + s * i] : off \in {-100, 0, 100}, s \in (-MaxStep)..MaxStep}

\* detect_macd_divergence of a frame of at least 30 bars
Divergence_detect_macd_divergence ==
    /\ fn = "idle"
    /\ UNCHANGED dataVars
    /\ \E n \in 30..MaxLen, pat \in DivergencePatterns,
          period_type \in {"daily", "weekly"} :
          \E dif \in DifSeries(n) :
             /\ fn' = "detect_macd_divergence"
             /\ arg' = [close |-> PatternSeries(n, pat), dif |-> dif,
                        period_type |-> period_type]
             /\ ret' = macd_divergence(PatternSeries(n, pat), dif, period_type)
             /\ calls' = <<"calculate_macd">>

(***************************************************************************)
(* The CSV store (src/data.py).  _save_to_csv writes the dates as          *)
(* year-month-day text and _load_from_csv parses them back: a day number   *)
(* survives the round trip, so the stored frame is the frame last saved.   *)
(***************************************************************************)
Dates(df) == {df[i].date : i \in 1..Len(df)}

\* _save_to_csv: an empty frame is not written, the file keeps its content
save_to_csv(df, stored) == IF Len(df) = 0 THEN stored ELSE df

\* DataFrame.drop_duplicates(subset=['date'], keep='last')
RECURSIVE drop_duplicates_keep_last(_)
drop_duplicates_keep_last(df) ==
    IF Len(df) = 0 THEN <<>>
    ELSE IF \E j \in 2..Len(df) : df[j].date = df[1].date
         THEN drop_duplicates_keep_last(Tail(df))
         ELSE <<df[1]>> \o drop_duplicates_keep_last(Tail(df))

RECURSIVE InsertByDate(_, _)
InsertByDate(bar, df) ==
    IF Len(df) = 0 THEN <<bar>>
    ELSE IF bar.date <= df[1].date THEN <<bar>> \o df
         ELSE <<df[1]>> \o InsertByDate(bar, Tail(df))

\* DataFrame.sort_values('date')
RECURSIVE sort_values_date(_)
sort_values_date(df) ==
    IF Len(df) = 0 THEN <<>>
    ELSE InsertByDate(df[1], sort_values_date(Tail(df)))

\* pd.concat, drop_duplicates and sort_values of a non-empty store and batch
merge_combined(existing_df, new_df) ==
    sort_values_date(drop_duplicates_keep_last(existing_df \o new_df))

\* _merge_and_update_csv: what it returns and what the file holds afterwards
merge_and_update_csv(existing_df, new_df, stored) ==
    IF Len(existing_df) = 0
    THEN [ret |-> new_df, csv |-> save_to_csv(new_df, stored)]
    ELSE IF Len(new_df) = 0
    THEN [ret |-> existing_df, csv |-> stored]
    ELSE LET combined == merge_combined(existing_df, new_df)
         IN  [ret |-> combined, csv |-> save_to_csv(combined, stored)]

Bars == [date : 1..MaxDate, close : 1..MaxClose]

RECURSIVE FramesUpTo(_)
FramesUpTo(n) ==
    IF n = 0 THEN {<<>>}
    ELSE LET shorter == FramesUpTo(n - 1)
         IN  shorter \cup {Append(df, b) : df \in {d \in shorter : Len(d) = n - 1}, b \in Bars}

\* the batches a download may hand to the merge: any bars in any order
Batches == FramesUpTo(MaxBatch)

\* one merge of a downloaded batch into the store loaded from the file
Store_merge_and_update_csv ==
    /\ \E new_df \in Batches :
        LET m == merge_and_update_csv(csv, new_df, csv)
        IN  /\ fn' = "_merge_and_update_csv"
            /\ arg' = [existing_df |-> csv, new_df |-> new_df]
            /\ ret' = m.ret
            /\ csv' = m.csv
    /\ UNCHANGED cacheDicts
    /\ calls' = <<>>
    /\ UNCHANGED <<cache, now, last_set>>

(***************************************************************************)
(* DataCache (src/cache.py).  The cache maps a key to the value and the    *)
(* time of its last set; get drops an entry it finds older than the age    *)
(* the caller allows.                                                       *)
(***************************************************************************)
CACHE_TTL == [etf_spot |-> 60, etf_hist |-> 300, index_spot |-> 60,
              index_hist |-> 300, macro |-> 3600, calendar |-> 3600]

\* DataCache.get with the expiry test >= in place of >
cache_get_expire_at_ttl(c, key, max_age_seconds, t) ==
    IF ~c[key].present
    THEN [ret |-> Miss, cache |-> c]
    ELSE IF t - c[key].time >= max_age_seconds
    THEN [ret |-> Miss, cache |-> [c EXCEPT ![key] = NoEntry]]
    ELSE [ret |-> Hit(c[key].value), cache |-> c]

\* DataCache.get: what it returns and the cache it leaves
cache_get(c, key, max_age_seconds, t) ==
    IF ~c[key].present
    THEN [ret |-> Miss, cache |-> c]
    ELSE IF t - c[key].time > max_age_seconds
    THEN [ret |-> Miss, cache |-> [c EXCEPT ![key] = NoEntry]]
    ELSE [ret |-> Hit(c[key].value), cache |-> c]

\* DataCache.set
cache_set(c, key, value, t) == [c EXCEPT ![key] = Entry(value, t)]

\* DataCache.clear
cache_clear(c) == [k \in DOMAIN c |-> NoEntry]

\* the tables the provider may return for a realtime quote request
SpotTables == {<<1>>, <<2>>}

\* the ages callers pass to DataCache.get
MaxAges == {CACHE_TTL.etf_spot, CACHE_TTL.etf_hist}

\* datetime.now() moves on
Clock_tick ==
    /\ now + TickSeconds <= MaxTime
    /\ now' = now + TickSeconds
    /\ fn' = "tick"
    /\ arg' = [now |-> now]
    /\ ret' = [now |-> now + TickSeconds]
    /\ UNCHANGED cacheDicts
    /\ calls' = <<>>
    /\ UNCHANGED <<csv, cache, last_set>>

Cache_get ==
    /\ \E max_age_seconds \in MaxAges :
        LET g == cache_get(cache, OtherKey, max_age_seconds, now)
        IN  /\ fn' = "get"
            /\ arg' = [key |-> OtherKey, max_age_seconds |-> max_age_seconds,
                       now |-> now, entry |-> cache[OtherKey],
                       written |-> last_set[OtherKey]]
            /\ ret' = g.ret
            /\ cache' = g.cache
    /\ UNCHANGED cacheDicts
    /\ calls' = <<>>
    /\ UNCHANGED <<csv, now, last_set>>

Cache_set ==
    /\ \E value \in SpotTables :
        /\ fn' = "set"
        /\ arg' = [key |-> OtherKey, value |-> value, now |-> now]
        /\ ret' = Miss
        /\ cache' = cache_set(cache, OtherKey, value, now)
        /\ last_set' = cache_set(last_set, OtherKey, value, now)
    /\ UNCHANGED cacheDicts
    /\ calls' = <<>>
    /\ UNCHANGED <<csv, now>>

Cache_clear ==
    /\ fn' = "clear"
    /\ arg' = [now |-> now]
    /\ ret' = Miss
    /\ cache' = cache_clear(cache)
    /\ last_set' = cache_clear(last_set)
    /\ UNCHANGED cacheDicts
    /\ calls' = <<>>
    /\ UNCHANGED <<csv, now>>

\* get_cached_etf_spot served from the cache
Spot_get_cached_etf_spot_hit ==
    LET g == cache_get(cache, SpotKey, CACHE_TTL.etf_spot, now)
    IN  /\ g.ret.hit
        /\ fn' = "get_cached_etf_spot"
        /\ arg' = [now |-> now, entry |-> cache[SpotKey],
                   written |-> last_set[SpotKey]]
        /\ ret' = [raised |-> FALSE, value |-> g.ret.value]
        /\ cache' = g.cache
        /\ UNCHANGED cacheDicts
        /\ calls' = <<>>
        /\ UNCHANGED <<csv, now, last_set>>

\* get_cached_etf_spot asking the provider, which answers with a table
Spot_get_cached_etf_spot_fetch ==
    LET g == cache_get(cache, SpotKey, CACHE_TTL.etf_spot, now)
    IN  /\ ~g.ret.hit
        /\ \E df \in SpotTables :
            /\ ret' = [raised |-> FALSE, value |-> df]
            /\ cache' = cache_set(g.cache, SpotKey, df, now)
            /\ last_set' = cache_set(last_set, SpotKey, df, now)
        /\ fn' = "get_cached_etf_spot"
        /\ arg' = [now |-> now, entry |-> cache[SpotKey],
                   written |-> last_set[SpotKey]]
        /\ UNCHANGED cacheDicts
        /\ calls' = <<"fund_etf_spot_em">>
        /\ UNCHANGED <<csv, now>>

\* get_cached_etf_spot asking the provider, which raises: nothing is cached
Spot_get_cached_etf_spot_raise ==
    LET g == cache_get(cache, SpotKey, CACHE_TTL.etf_spot, now)
    IN  /\ ~g.ret.hit
        /\ fn' = "get_cached_etf_spot"
        /\ arg' = [now |-> now, entry |-> cache[SpotKey],
                   written |-> last_set[SpotKey]]
        /\ ret' = [raised |-> TRUE, value |-> <<>>]
        /\ cache' = g.cache
        /\ UNCHANGED cacheDicts
        /\ calls' = <<"fund_etf_spot_em">>
        /\ UNCHANGED <<csv, now, last_set>>

(***************************************************************************)
(* get_etf_hist_data (src/data.py) for an explicit range of one symbol:    *)
(* memory cache, then the CSV store, then the provider for the days before *)
(* the first and after the last stored bar.                                 *)
(***************************************************************************)
MinDate(df) == CHOOSE d \in Dates(df) : \A e \in Dates(df) : d <= e

MaxDateOf(df) == CHOOSE d \in Dates(df) : \A e \in Dates(df) : d >= e

\* the bar the provider has for a trading day
ProviderBar(d) == [date |-> d, close |-> 1 + (d % MaxClose)]

\* ak.fund_etf_hist_em: the bars of the trading days in start..end, ascending
RECURSIVE fund_etf_hist_em(_, _)
fund_etf_hist_em(start, end) ==
    IF start > end THEN <<>>
    ELSE IF start \in TradingDays
         THEN <<ProviderBar(start)>> \o fund_etf_hist_em(start + 1, end)
         ELSE fund_etf_hist_em(start + 1, end)

need_download_early(query_start, csv_df) ==
    Len(csv_df) = 0 \/ query_start < MinDate(csv_df)

\* need_download_recent without the day of tolerance
need_download_recent_no_tolerance(query_end, csv_df) ==
    Len(csv_df) > 0 /\ query_end > MaxDateOf(csv_df)

need_download_recent(query_end, csv_df) ==
    Len(csv_df) > 0 /\ query_end > MaxDateOf(csv_df) + 1

\* csv_df[(date >= start) & (date <= end)].sort_values('date')
filter_range(csv_df, query_start, query_end) ==
    sort_values_date(SelectSeq(csv_df,
        LAMBDA b : b.date >= query_start /\ b.date <= query_end))

\* one download and merge: ok is whether the provider answered
download_and_merge(csv_df, stored, start, end, ok) ==
    LET new_df == fund_etf_hist_em(start, end)
    IN  IF ok /\ Len(new_df) > 0
        THEN merge_and_update_csv(csv_df, new_df, stored)
        ELSE [ret |-> csv_df, csv |-> stored]

\* get_etf_hist_data past the memory cache: the frame returned or the
\* exception, the store left behind, the provider requests made and whether
\* the result is cached
hist_from_store(query_start, query_end, stored, early_ok, recent_ok) ==
    LET csv_df == stored
        early == need_download_early(query_start, csv_df)
        recent == need_download_recent(query_end, csv_df)
        download_end == IF Len(csv_df) = 0 THEN query_end ELSE MinDate(csv_df) - 1
        m1 == IF early
              THEN download_and_merge(csv_df, stored, query_start, download_end, early_ok)
              ELSE [ret |-> csv_df, csv |-> stored]
        calls1 == IF early THEN <<<<"fund_etf_hist_em", query_start, download_end>>>> ELSE <<>>
        again == recent /\ Len(m1.ret) > 0
        download_start == IF Len(m1.ret) > 0 THEN MaxDateOf(m1.ret) + 1 ELSE query_start
        m2 == IF again
              THEN download_and_merge(m1.ret, m1.csv, download_start, query_end, recent_ok)
              ELSE m1
        calls2 == IF again THEN <<<<"fund_etf_hist_em", download_start, query_end>>>> ELSE <<>>
    IN  IF early /\ ~early_ok /\ Len(csv_df) = 0
        THEN [raised |-> TRUE, value |-> <<>>, csv |-> stored, calls |-> calls1, cached |-> FALSE]
        ELSE IF Len(m2.ret) = 0
        THEN [raised |-> FALSE, value |-> <<>>, csv |-> m2.csv, calls |-> calls1 \o calls2,
              cached |-> FALSE]
        ELSE [raised |-> FALSE, value |-> filter_range(m2.ret, query_start, query_end),
              csv |-> m2.csv, calls |-> calls1 \o calls2, cached |-> TRUE]

\* time passes between requests
Clock_sleep ==
    /\ now + SleepSeconds <= MaxSleepTime
    /\ now' = now + SleepSeconds
    /\ fn' = "sleep"
    /\ arg' = [now |-> now]
    /\ ret' = [now |-> now + SleepSeconds]
    /\ UNCHANGED cacheDicts
    /\ calls' = <<>>
    /\ UNCHANGED <<csv, cache, last_set>>

\* get_etf_hist_data answered from the memory cache
Hist_get_etf_hist_data_cached ==
    \E r \in HistRanges :
        LET key == HistKey(r[1], r[2])
            g == cache_get(cache, key, CACHE_TTL.etf_hist, now)
        IN  /\ g.ret.hit
            /\ fn' = "get_etf_hist_data"
            /\ arg' = [start_date |-> r[1], end_date |-> r[2], now |-> now,
                       entry |-> cache[key], written |-> last_set[key], csv |-> csv]
            /\ ret' = [raised |-> FALSE, value |-> g.ret.value]
            /\ cache' = g.cache
            /\ UNCHANGED cacheDicts
            /\ calls' = <<>>
            /\ UNCHANGED <<csv, now, last_set>>

\* get_etf_hist_data past the memory cache
Hist_get_etf_hist_data_load ==
    \E r \in HistRanges, early_ok \in BOOLEAN, recent_ok \in BOOLEAN :
        LET key == HistKey(r[1], r[2])
            g == cache_get(cache, key, CACHE_TTL.etf_hist, now)
            h == hist_from_store(r[1], r[2], csv, early_ok, recent_ok)
        IN  /\ ~g.ret.hit
            /\ fn' = "get_etf_hist_data"
            /\ arg' = [start_date |-> r[1], end_date |-> r[2], now |-> now,
                       entry |-> cache[key], written |-> last_set[key], csv |-> csv]
            /\ ret' = [raised |-> h.raised, value |-> h.value]
            /\ csv' = h.csv
            /\ cache' = IF h.cached THEN cache_set(g.cache, key, h.value, now) ELSE g.cache
            /\ last_set' = IF h.cached THEN cache_set(last_set, key, h.value, now) ELSE last_set
            /\ UNCHANGED cacheDicts
            /\ calls' = h.calls
            /\ UNCHANGED now

(***************************************************************************)
(* clear_data_cache (src/tools.py) reports DataCache.stats() and clears    *)
(* the memory cache (clear_cache, src/cache.py); the CSV store is not      *)
(* touched.                                                                 *)
(***************************************************************************)
\* DataCache.stats()['cache_size']
cache_size(c) == Cardinality({k \in DOMAIN c : c[k].present})

\* clear_cache: the statistics taken before the clear, and the cleared cache
clear_cache(c) == [stats |-> [cache_size |-> cache_size(c)], cache |-> cache_clear(c)]

Tool_clear_data_cache ==
    /\ fn' = "clear_data_cache"
    /\ arg' = [now |-> now, cache_size |-> cache_size(cache)]
    /\ ret' = clear_cache(cache).stats
    /\ cache' = clear_cache(cache).cache
    /\ last_set' = cache_clear(last_set)
    /\ UNCHANGED cacheDicts
    /\ calls' = <<>>
    /\ UNCHANGED <<csv, now>>

(***************************************************************************)
(* detect_bullish_candle_pattern on frames of up to three bars drawn from  *)
(* shapes on each side of every condition of the three patterns.           *)
(***************************************************************************)
Candle(o, h, l, c) == [open |-> o, high |-> h, low |-> l, close |-> c]

\* first bar: bearish with a long body, bearish with a short body, bullish
FirstCandles ==
    {Candle(40, 41, 29, 30), Candle(40, 44, 30, 36), Candle(30, 41, 29, 40),
     Candle(40, 42, 28, 32)}

\* middle bar: small bearish, large bearish, small bullish, flat
MiddleCandles ==
    {Candle(30, 31, 28, 29), Candle(36, 37, 28, 29), Candle(29, 31, 28, 30),
     Candle(30, 32, 29, 30)}

\* last bar: open, close, length of the upper and of the lower shadow
LastCandles ==
    {Candle(o, (IF o > c THEN o ELSE c) + up, (IF o < c THEN o ELSE c) - down, c) :
        o \in {28, 32}, c \in {28, 31, 39}, up \in {0, 2}, down \in {0, 8, 24}}

CandleFrames ==
    {<<>>} \cup {<<c3>> : c3 \in LastCandles}
    \cup {<<c2, c3>> : c2 \in MiddleCandles, c3 \in LastCandles}
    \cup {<<c1, c2, c3>> : c1 \in FirstCandles, c2 \in MiddleCandles, c3 \in LastCandles}

Candle_detect_bullish_candle_pattern ==
    /\ fn = "idle"
    /\ UNCHANGED dataVars
    /\ \E df \in CandleFrames :
          Returned("detect_bullish_candle_pattern", [df |-> df],
                   detect_bullish_candle_pattern(df))

(***************************************************************************)
(* analyze_historical_indicators on the closes of a frame.  calculate_macd *)
(* is three exponential averages with adjust=False, each seeded with its   *)
(* first input: ema_fast (span 12) y = (11*y + 2*x)/13, ema_slow (span 26) *)
(* y = (25*y + 2*x)/27 and DEA (span 9) y = (4*y + x)/5 of DIF = ema_fast  *)
(* - ema_slow.  The averages are linear, so DEA = e9(ema_fast) -           *)
(* e9(ema_slow) and DIF > DEA iff ema_fast + e9(ema_slow) > ema_slow +     *)
(* e9(ema_fast).  The fold keeps the four averages at position i - 1       *)
(* scaled by 1755^(i-2) (1755 = 13*27*5) and P = 1755^(i-2), and appends   *)
(* the sign of DIF - DEA at position i.                                     *)
(***************************************************************************)
RECURSIVE macd_fold(_, _, _, _, _, _, _, _)
macd_fold(x, i, EF, ES, E9F, E9S, P, acc) ==
    IF i > Len(x) THEN acc
    ELSE LET Tf   == BigAdd(BigMul(EF, 11), BigMul(P, 2 * x[i]))
             Ts   == BigAdd(BigMul(ES, 25), BigMul(P, 2 * x[i]))
             EF2  == BigMul(Tf, 135)
             ES2  == BigMul(Ts, 65)
             E9F2 == BigAdd(BigMul(E9F, 1404), BigMul(Tf, 27))
             E9S2 == BigAdd(BigMul(E9S, 1404), BigMul(Ts, 13))
             L    == BigAdd(EF2, E9S2)
             R    == BigAdd(ES2, E9F2)
             sgn  == IF BigLess(R, L) THEN 1 ELSE IF BigLess(L, R) THEN -1 ELSE 0
         IN  macd_fold(x, i + 1, EF2, ES2, E9F2, E9S2, BigMul(P, 1755), Append(acc, sgn))

\* the sign of DIF - DEA at every position; 0 at the first, where both are 0
macd_sign(close) ==
    IF Len(close) = 0 THEN <<>>
    ELSE LET s == BigOf(close[1])
         IN  macd_fold(close, 2, s, s, s, s, BigOf(1), <<0>>)

\* the golden-cross test with a strict comparison at the previous position
macd_cross_up_strict(sgn, i) == sgn[i] > 0 /\ sgn[i - 1] < 0

\* dif[i] > dea[i] and dif[i-1] <= dea[i-1]
macd_cross_up_at(sgn, i) == sgn[i] > 0 /\ sgn[i - 1] <= 0

\* the death-cross test without the comparison at the previous position
macd_cross_down_every_bar(sgn, i) == ~macd_cross_up_at(sgn, i) /\ sgn[i] < 0

\* elif dif[i] < dea[i] and dif[i-1] >= dea[i-1]
macd_cross_down_at(sgn, i) ==
    ~macd_cross_up_at(sgn, i) /\ sgn[i] < 0 /\ sgn[i - 1] >= 0

\* percent_b < t for t below 50 and percent_b > t for t above 50, where
\* percent_b = (a/p + 2*std) / (4*std) * 100 and std = sqrt(sq/den):
\* a/p < -k*std/25 with k = 50 - t, resp. a/p > k*std/25 with k = t - 50
pb_beyond(v, k, below) ==
    CASE v.kind = "nan" -> FALSE
      [] v.kind = "inf" -> IF below THEN v.a < 0 ELSE v.a > 0
      [] OTHER ->
           /\ IF below THEN v.a < 0 ELSE v.a > 0
           /\ BigLess(BigMul(BigMul(BigOf(v.sq), v.p * v.p), k * k),
                      BigMul(BigMul(BigOf(v.a * v.a), v.den), 625))

CountOf(n, P(_)) == Cardinality({i \in 1..n : P(i)})

\* the statistics of the trailing window of `weeks` closes; rsi_avg is the
\* mean of the defined RSI values: not-a-number when there is none, and
\* otherwise one of the values avg that the caller of the operator allows
historical_indicators(close, weeks, avg) ==
    LET weeks2     == IF Len(close) < weeks THEN Len(close) ELSE weeks
        period     == Tail_n(close, weeks2)
        n          == Len(period)
        rsi_series == calculate_rsi(period, 14)
        pb_series  == calculate_boll(period, 20, 2).percent_b
        sgn        == macd_sign(period)
        rsi_valid  == {i \in 1..n : ~rsi_series[i].nan}
    IN  [weeks |-> weeks2,
         rsi_oversold_count   |-> CountOf(n, LAMBDA i : RsiLT(rsi_series[i], 30)),
         rsi_overbought_count |-> CountOf(n, LAMBDA i : RsiGT(rsi_series[i], 70)),
         rsi_avg       |-> IF rsi_valid = {} THEN NaNValue ELSE avg,
         pb_valid      |-> CountOf(n, LAMBDA i : pb_series[i].kind # "nan"),
         pb_near_lower |-> CountOf(n, LAMBDA i : pb_beyond(pb_series[i], 30, TRUE)),
         pb_near_upper |-> CountOf(n, LAMBDA i : pb_beyond(pb_series[i], 30, FALSE)),
         macd_cross_up   |-> CountOf(n, LAMBDA i : i > 1 /\ macd_cross_up_at(sgn, i)),
         macd_cross_down |-> CountOf(n, LAMBDA i : i > 1 /\ macd_cross_down_at(sgn, i)),
         macd_sign |-> sgn]

\* the RSI, MACD and percent_b blocks of get_period_trend_judgment
history_judgment(stats) ==
    judgment_boll(judgment_macd(judgment_rsi([score |-> 0, judgments |-> <<>>],
                                             stats), stats), stats).judgments

\* closes moving by a constant step, or rising and falling in runs of 1, 2
\* or 4 bars
HistoryPatterns ==
    {<<a>> : a \in (-MaxStep)..MaxStep}
    \cup {<<a, -a>> : a \in 1..MaxStep}
    \cup {<<a, a, b, b>> : a \in 1..MaxStep, b \in (-MaxStep)..(-1)}
    \cup {<<a, a, a, a, b, b, b, b>> : a \in 1..MaxStep, b \in (-MaxStep)..(-1)}

\* frame lengths around the windows of RSI(14) and BOLL(20)
HistoryLengths == {1, 2, 12, 13, 14, 20, MaxLen}

\* analyze_historical_indicators of a frame of at least one bar, followed by
\* get_period_trend_judgment of its statistics
History_analyze_historical_indicators ==
    /\ fn = "idle"
    /\ UNCHANGED dataVars
    /\ \E n \in HistoryLengths, pat \in HistoryPatterns, weeks \in Windows :
        \E avg \in {Num(40), Num(50), Num(60)} :
          LET close == PatternSeries(n, pat)
              stats == historical_indicators(close, weeks, avg)
          IN  /\ fn' = "analyze_historical_indicators"
              /\ arg' = [close |-> close, weeks |-> weeks]
              /\ ret' = [stats |-> stats, judgments |-> history_judgment(stats)]
              /\ calls' = <<"calculate_rsi", "calculate_boll", "calculate_macd">>

(***************************************************************************)
(* screen_swing_opportunities (src/tools.py).  For each target the search, *)
(* the download and the two analyses end in one of the outcomes below; the *)
(* tool keeps the targets it lists, sorted by trend plus buy strength.     *)
(***************************************************************************)
\* at most MaxTargets targets are screened
MaxTargets == 2

\* why a target is dropped before the analyses are done, or "analysed"
ScreenStages ==
    {"search_empty", "search_error", "daily_short", "weekly_short", "trend_error",
     "raised", "analysed"}

\* the outcome of one target: for an analysed one, the weekly trend_strength
\* and the daily buy signal_strength with its signals
ScreenOutcomes ==
    [stage : ScreenStages \ {"analysed"}, trend_strength : {0}, buy_strength : {0},
     signals : {<<>>}]
    \cup [stage : {"analysed"}, trend_strength : {-60, 29, 30, 80},
          buy_strength : {0}, signals : {<<>>}]
    \cup [stage : {"analysed"}, trend_strength : {-60, 29, 30, 80},
          buy_strength : {30, 70}, signals : {<<"macd">>, <<"macd", "kdj", "rsi", "boll">>}]

\* the loop body: whether the target is appended to opportunities
screen_lists(o) == o.stage = "analysed" /\ ~(o.trend_strength < 30)

screen_entry(i, o) ==
    [target |-> i, trend_strength |-> o.trend_strength, buy_strength |-> o.buy_strength,
     signals |-> SubSeq(o.signals, 1, IF Len(o.signals) < 3 THEN Len(o.signals) ELSE 3)]

RECURSIVE screen_insert(_, _)
\* list.sort(key=trend_strength + buy_strength, reverse=True) is stable
screen_insert(e, sorted) ==
    IF Len(sorted) = 0 THEN <<e>>
    ELSE IF e.trend_strength + e.buy_strength
              > sorted[1].trend_strength + sorted[1].buy_strength
         THEN <<e>> \o sorted
         ELSE <<sorted[1]>> \o screen_insert(e, Tail(sorted))

RECURSIVE screen_from(_, _)
\* the opportunities of the targets i..Len(outcomes), sorted
screen_from(outcomes, i) ==
    IF i > Len(outcomes) THEN <<>>
    ELSE LET rest == screen_from(outcomes, i + 1)
         IN  IF screen_lists(outcomes[i])
             THEN screen_insert(screen_entry(i, outcomes[i]), rest)
             ELSE rest

screen_swing_opportunities(outcomes) == screen_from(outcomes, 1)

Screen_screen_swing_opportunities ==
    /\ fn = "idle"
    /\ UNCHANGED dataVars
    /\ \E outcomes \in SeqsUpTo(ScreenOutcomes, MaxTargets) :
          /\ fn' = "screen_swing_opportunities"
          /\ arg' = [outcomes |-> outcomes]
          /\ ret' = [opportunities |-> screen_swing_opportunities(outcomes)]
          /\ calls' = <<>>

(***************************************************************************)
(* DataCache with its two dictionaries kept apart (src/cache.py): dcache   *)
(* is _cache, timestamps is _timestamps.  A missing timestamp reads as     *)
(* datetime.min, whose age exceeds every max_age_seconds a caller passes.  *)
(* The calls are made one at a time.                                       *)
(***************************************************************************)
DictSet(d, key, value) ==
    [k \in DOMAIN d \cup {key} |-> IF k = key THEN value ELSE d[k]]

DictDel(d, key) == [k \in DOMAIN d \ {key} |-> d[k]]

\* the age test of DataCache.get for a stored key
dict_expired(t, key, max_age_seconds, at) ==
    key \notin DOMAIN t \/ at - t[key] > max_age_seconds

\* faulty variant: an expired entry is deleted from _cache only
dict_get_keep_timestamp(c, t, key, max_age_seconds, at) ==
    IF key \notin DOMAIN c
    THEN [kind |-> "return", ret |-> Miss, dcache |-> c, timestamps |-> t]
    ELSE IF dict_expired(t, key, max_age_seconds, at)
    THEN [kind |-> "return", ret |-> Miss, dcache |-> DictDel(c, key), timestamps |-> t]
    ELSE [kind |-> "return", ret |-> Hit(c[key]), dcache |-> c, timestamps |-> t]

\* DataCache.get; del self._timestamps[key] raises KeyError for a key that
\* has no timestamp, after the value was deleted
dict_get(c, t, key, max_age_seconds, at) ==
    IF key \notin DOMAIN c
    THEN [kind |-> "return", ret |-> Miss, dcache |-> c, timestamps |-> t]
    ELSE IF dict_expired(t, key, max_age_seconds, at)
    THEN IF key \in DOMAIN t
         THEN [kind |-> "return", ret |-> Miss,
               dcache |-> DictDel(c, key), timestamps |-> DictDel(t, key)]
         ELSE [kind |-> "KeyError", ret |-> Miss,
               dcache |-> DictDel(c, key), timestamps |-> t]
    ELSE [kind |-> "return", ret |-> Hit(c[key]), dcache |-> c, timestamps |-> t]

\* DataCache.set
dict_set(c, t, key, value, at) ==
    [dcache |-> DictSet(c, key, value), timestamps |-> DictSet(t, key, at)]

\* DataCache.clear
dict_clear(c, t) == [dcache |-> EmptyDict, timestamps |-> EmptyDict]

\* DataCache.stats
dict_stats(c) == [cache_size |-> Cardinality(DOMAIN c), keys |-> DOMAIN c]

DataCache_get ==
    /\ \E key \in {SpotKey, OtherKey}, max_age_seconds \in MaxAges :
        LET g == dict_get(dcache, timestamps, key, max_age_seconds, now)
        IN  /\ fn' = "DataCache.get"
            /\ arg' = [key |-> key, max_age_seconds |-> max_age_seconds, now |-> now,
                       held |-> key \in DOMAIN dcache,
                       stamped |-> key \in DOMAIN timestamps,
                       expired |-> dict_expired(timestamps, key, max_age_seconds, now)]
            /\ ret' = [kind |-> g.kind, value |-> g.ret]
            /\ dcache' = g.dcache
            /\ timestamps' = g.timestamps
    /\ calls' = <<>>
    /\ UNCHANGED <<csv, cache, now, last_set>>

DataCache_set ==
    /\ \E key \in {SpotKey, OtherKey}, value \in SpotTables :
        LET s == dict_set(dcache, timestamps, key, value, now)
        IN  /\ fn' = "DataCache.set"
            /\ arg' = [key |-> key, value |-> value, now |-> now]
            /\ ret' = <<>>
            /\ dcache' = s.dcache
            /\ timestamps' = s.timestamps
    /\ calls' = <<>>
    /\ UNCHANGED <<csv, cache, now, last_set>>

DataCache_clear ==
    /\ fn' = "DataCache.clear"
    /\ arg' = [now |-> now]
    /\ ret' = <<>>
    /\ dcache' = dict_clear(dcache, timestamps).dcache
    /\ timestamps' = dict_clear(dcache, timestamps).timestamps
    /\ calls' = <<>>
    /\ UNCHANGED <<csv, cache, now, last_set>>

DataCache_stats ==
    /\ fn' = "DataCache.stats"
    /\ arg' = [now |-> now]
    /\ ret' = dict_stats(dcache)
    /\ calls' = <<>>
    /\ UNCHANGED <<csv, cache, now, last_set, dcache, timestamps>>

(***************************************************************************)
(* Specifications: one per family of functions, and the whole engine.      *)
(***************************************************************************)
NextMa == Call_calculate_ma

SpecMa == Init /\ [][NextMa]_vars

NextRsi == Call_calculate_rsi

SpecRsi == Init /\ [][NextRsi]_vars

NextBoll == Call_calculate_boll

SpecBoll == Init /\ [][NextBoll]_vars

NextObv == Call_calculate_obv

SpecObv == Init /\ [][NextObv]_vars

NextWeekly == Call_resample_to_weekly

SpecWeekly == Init /\ [][NextWeekly]_vars

NextSignals == Call_get_indicator_signals

SpecSignals == Init /\ [][NextSignals]_vars

NextAnalysis ==
    \/ Call_calculate_period_score
    \/ Call_analyze_historical_indicators
    \/ Call_analyze_weekly_trend
    \/ Call_detect_macd_divergence
    \/ Call_analyze_daily_buy_signals
    \/ Call_analyze_daily_sell_signals
    \/ Call_detect_bullish_candle_pattern
    \/ Call_find_support_resistance

SpecAnalysis == Init /\ [][NextAnalysis]_vars

NextScore == Score_calculate_period_score

SpecScore == Init /\ [][NextScore]_vars

NextJudgment == Call_get_period_trend_judgment

SpecJudgment == Init /\ [][NextJudgment]_vars

NextTrend == Trend_analyze_weekly_trend

SpecTrend == Init /\ [][NextTrend]_vars

NextDaily ==
    \/ Signals_analyze_daily_buy_signals
    \/ Signals_analyze_daily_sell_signals

SpecDaily == Init /\ [][NextDaily]_vars

NextLevels == Levels_find_support_resistance

SpecLevels == Init /\ [][NextLevels]_vars

NextDivergence == Divergence_detect_macd_divergence

SpecDivergence == Init /\ [][NextDivergence]_vars

NextStore == Store_merge_and_update_csv

SpecStore == Init /\ [][NextStore]_vars

NextCache ==
    \/ Clock_tick
    \/ Cache_get
    \/ Cache_set
    \/ Cache_clear
    \/ Spot_get_cached_etf_spot_hit
    \/ Spot_get_cached_etf_spot_fetch
    \/ Spot_get_cached_etf_spot_raise

SpecCache == Init /\ [][NextCache]_vars

NextHist ==
    \/ Clock_sleep
    \/ Hist_get_etf_hist_data_cached
    \/ Hist_get_etf_hist_data_load

SpecHist == Init /\ [][NextHist]_vars

NextClear ==
    \/ Tool_clear_data_cache
    \/ Hist_get_etf_hist_data_cached
    \/ Hist_get_etf_hist_data_load
    \/ Spot_get_cached_etf_spot_hit
    \/ Spot_get_cached_etf_spot_fetch
    \/ Spot_get_cached_etf_spot_raise

SpecClear == Init /\ [][NextClear]_vars

NextCandle == Candle_detect_bullish_candle_pattern

SpecCandle == Init /\ [][NextCandle]_vars

NextHistory == History_analyze_historical_indicators

SpecHistory == Init /\ [][NextHistory]_vars

NextScreen == Screen_screen_swing_opportunities

SpecScreen == Init /\ [][NextScreen]_vars

NextDataCache ==
    \/ Clock_tick
    \/ DataCache_get
    \/ DataCache_set
    \/ DataCache_clear
    \/ DataCache_stats

SpecDataCache == Init /\ [][NextDataCache]_vars

Next ==
    \/ NextMa
    \/ NextRsi
    \/ NextBoll
    \/ NextObv
    \/ NextWeekly
    \/ NextSignals
    \/ NextAnalysis
    \/ NextScore
    \/ NextJudgment
    \/ NextTrend
    \/ NextDaily
    \/ NextLevels
    \/ NextDivergence
    \/ NextStore
    \/ NextCache
    \/ NextHist
    \/ NextClear
    \/ NextCandle
    \/ NextHistory
    \/ NextScreen
    \/ NextDataCache

Spec == Init /\ [][Next]_vars

(***************************************************************************)
(* Properties.                                                             *)
(***************************************************************************)
StrictlyIncreasing(s) == \A i \in 2..Len(s) : s[i - 1] < s[i]

StrictlyDecreasing(s) == \A i \in 2..Len(s) : s[i - 1] > s[i]

\* C5: calculate_ma returns a series as long as its input, not-a-number at
\* the first period-1 positions and the arithmetic mean of the last `period`
\* values from then on.
C5_MaWindowMean ==
    fn = "calculate_ma" =>
        /\ Len(ret) = Len(arg.data)
        /\ \A i \in 1..Len(arg.data) :
              IF i < arg.period
              THEN ret[i].nan
              ELSE /\ ~ret[i].nan
                   /\ ret[i].num = SumRange(arg.data, i - arg.period + 1, i)
                   /\ ret[i].den = arg.period

C5_Witness ==
    /\ fn = "calculate_ma"
    /\ arg.period = 3 /\ Len(arg.data) = 4
    /\ ret[2].nan /\ ~ret[4].nan
    /\ ret[4].num = arg.data[2] + arg.data[3] + arg.data[4]

\* the smoothed avg_loss of the call's series is defined and 0 at position i
AvgLossZeroAt(i) ==
    /\ wilder_defined(arg.period, i)
    /\ wilder_scaled(rsi_loss(arg.data), arg.period)[i] = <<>>

\* C3 (as claimed): wherever the Wilder averages are defined and avg_loss is
\* 0, calculate_rsi returns exactly 100, whatever avg_gain is.
C3_RsiSaturatesAt100 ==
    fn = "calculate_rsi" =>
        \A i \in 1..Len(arg.data) : AvgLossZeroAt(i) => RsiEQ(ret[i], 100)

\* C4 (as claimed): at every position with at least `period` bars of
\* history, percent_b of calculate_boll is a defined finite number, also
\* when all closes of the window are equal.
C4_PercentBDefined ==
    fn = "calculate_boll" =>
        \A i \in 1..Len(arg.data) :
            i >= arg.period => ret.percent_b[i].kind = "fin"

\* C6: the last RSI(14) of a strictly increasing series of at least 30
\* closes is above 70, that of a strictly decreasing one below 30.
C6_RsiMonotone ==
    (fn = "calculate_rsi" /\ arg.period = 14 /\ Len(arg.data) >= 30) =>
        /\ StrictlyIncreasing(arg.data) => RsiGT(ret[Len(ret)], 70)
        /\ StrictlyDecreasing(arg.data) => RsiLT(ret[Len(ret)], 30)

C6_Witness ==
    /\ fn = "calculate_rsi" /\ arg.period = 14 /\ Len(arg.data) >= 30
    /\ StrictlyDecreasing(arg.data)
    /\ RsiLT(ret[Len(ret)], 30)

\* C1: a scorer given fewer bars than its minimum returns its sentinel and
\* has computed no indicator: calculate_period_score (20) None,
\* detect_macd_divergence (30) type 'none', analyze_daily_sell_signals (30),
\* analyze_daily_buy_signals (60) and analyze_weekly_trend (60) an 'error'.
C1_InsufficientBars ==
    /\ (fn = "calculate_period_score" /\ Len(arg.df) < 20)
          => (ret.kind = "None" /\ calls = <<>>)
    /\ (fn = "detect_macd_divergence" /\ Len(arg.df) < 30)
          => (ret.kind = "none" /\ calls = <<>>)
    /\ (fn = "analyze_daily_sell_signals" /\ Len(arg.df) < 30)
          => (ret.kind = "error" /\ calls = <<>>)
    /\ (fn = "analyze_daily_buy_signals" /\ Len(arg.df) < 60)
          => (ret.kind = "error" /\ calls = <<>>)
    /\ (fn = "analyze_weekly_trend" /\ Len(arg.df) < 60)
          => (ret.kind = "error" /\ calls = <<>>)

C1_Witness ==
    /\ fn = "analyze_daily_buy_signals"
    /\ Len(arg.df) = 59
    /\ ret.kind = "error" /\ calls = <<>>

CoreFunctions ==
    {"calculate_period_score", "analyze_historical_indicators",
     "analyze_weekly_trend", "detect_macd_divergence",
     "analyze_daily_buy_signals", "analyze_daily_sell_signals",
     "detect_bullish_candle_pattern", "find_support_resistance"}

\* C2 (as claimed): given an empty frame, every core analysis function
\* returns an insufficient-data / none result and raises nothing.
C2_EmptyFrameHandled ==
    (fn \in CoreFunctions /\ Len(arg.df) = 0) =>
        ret.kind \in {"None", "none", "error"}

Closes(data) == Column(data, "close")

ObvStrictlyUp == \A i \in 2..Len(ret) : ret[i - 1] < ret[i]

ObvStrictlyDown == \A i \in 2..Len(ret) : ret[i - 1] > ret[i]

\* C7 (as claimed): for strictly increasing closes calculate_obv is
\* strictly increasing from each position to the next, for strictly
\* decreasing closes strictly decreasing - whatever the volumes.
C7_ObvFollowsCloses ==
    fn = "calculate_obv" =>
        /\ StrictlyIncreasing(Closes(arg.data)) => ObvStrictlyUp
        /\ StrictlyDecreasing(Closes(arg.data)) => ObvStrictlyDown

PositiveVolumes(data) == \A i \in 2..Len(data) : data[i].volume > 0

\* C7 (amended): the same, for series in which every bar after the first
\* has a positive volume.
C7_ObvFollowsClosesOnVolume ==
    (fn = "calculate_obv" /\ PositiveVolumes(arg.data)) =>
        /\ StrictlyIncreasing(Closes(arg.data)) => ObvStrictlyUp
        /\ StrictlyDecreasing(Closes(arg.data)) => ObvStrictlyDown

C7_Witness ==
    /\ fn = "calculate_obv"
    /\ Len(arg.data) = 3
    /\ PositiveVolumes(arg.data)
    /\ StrictlyDecreasing(Closes(arg.data))
    /\ ret[1] = 0 /\ ret[2] < 0 /\ ret[3] < ret[2]

FirstDate(data) == data[1].date

LastDate(data) == data[Len(data)].date

\* two bars of the frame lie in the same calendar week
SharesAWeek(data) ==
    \E i, j \in 1..Len(data) : i < j /\ WeekOf(data[i].date) = WeekOf(data[j].date)

\* C8 (as claimed): a daily series whose dates span at least two calendar
\* weeks (14 days or more from the first bar to the last) resamples to
\* strictly fewer rows than it has bars.
C8_WeeklyStrictlyFewer ==
    (fn = "resample_to_weekly" /\ Len(arg.data) > 0
        /\ LastDate(arg.data) - FirstDate(arg.data) >= 14) =>
        Len(ret) < Len(arg.data)

\* C8 (amended): the weekly frame never has more rows than the daily frame
\* has bars; it has strictly fewer when two bars share a calendar week and,
\* all fields being numeric, exactly as many when no two do.
C8_WeeklyNoMoreRows ==
    fn = "resample_to_weekly" =>
        /\ Len(ret) <= Len(arg.data)
        /\ SharesAWeek(arg.data) => Len(ret) < Len(arg.data)
        /\ ~SharesAWeek(arg.data) => Len(ret) = Len(arg.data)

C8_Witness ==
    /\ fn = "resample_to_weekly"
    /\ Len(arg.data) = 3 /\ Len(ret) = 2
    /\ LastDate(arg.data) - FirstDate(arg.data) >= 14
    /\ SharesAWeek(arg.data)

\* positions of the bars of week w
WeekIndices(data, w) == {i \in 1..Len(data) : WeekOf(data[i].date) = w}

SetMin(S) == CHOOSE x \in S : \A y \in S : x <= y

SetMax(S) == CHOOSE x \in S : \A y \in S : x >= y

RECURSIVE VolumeOver(_, _)
VolumeOver(data, S) ==
    IF S = {} THEN 0
    ELSE LET i == SetMin(S) IN data[i].volume + VolumeOver(data, S \ {i})

\* row r is the aggregate of the bars of its calendar week
RowAggregatesWeek(data, r) ==
    LET idx == WeekIndices(data, WeekOf(r.date))
    IN  /\ idx # {}
        /\ r.open = Rat(data[SetMin(idx)].open, 1)
        /\ r.close = Rat(data[SetMax(idx)].close, 1)
        /\ r.high = Rat(SetMax({data[i].high : i \in idx}), 1)
        /\ r.low = Rat(SetMin({data[i].low : i \in idx}), 1)
        /\ r.volume = Rat(VolumeOver(data, idx), 1)

\* C9: for a chronological frame with numeric fields, resample_to_weekly
\* returns one row per calendar week that holds a bar and none for the
\* others, in chronological order, each row with the week's first open,
\* highest high, lowest low, last close and summed volume; the total volume
\* is preserved.
C9_WeeklyAggregation ==
    fn = "resample_to_weekly" =>
        /\ Len(ret) = Cardinality({WeekOf(arg.data[i].date) : i \in 1..Len(arg.data)})
        /\ \A k \in 1..Len(ret) : RowAggregatesWeek(arg.data, ret[k])
        /\ \A k \in 2..Len(ret) : ret[k - 1].date < ret[k].date
        /\ SumRange([k \in 1..Len(ret) |-> ret[k].volume.num], 1, Len(ret))
              = SumRange(Column(arg.data, "volume"), 1, Len(arg.data))

C9_Witness ==
    /\ fn = "resample_to_weekly"
    /\ Len(arg.data) = 3 /\ Len(ret) = 2
    /\ WeekOf(ret[2].date) - WeekOf(ret[1].date) = 2
    /\ arg.data[1].close # arg.data[2].close
    /\ WeekOf(arg.data[1].date) = WeekOf(arg.data[2].date)
    /\ ret[1].close = Rat(arg.data[2].close, 1)

IsBelow(x, t) == x.st = "num" /\ x.v < t

IsAbove(x, t) == x.st = "num" /\ x.v > t

\* percent_b < 20, rsi_14 < 30 and DIF < DEA < 0
Oversold(indicators) ==
    /\ indicators.boll.present /\ IsBelow(indicators.boll.percent_b, 20)
    /\ indicators.rsi.present /\ IsBelow(indicators.rsi.rsi_14, 30)
    /\ indicators.macd.present /\ IsBelow(indicators.macd.dea, 0)
    /\ LT(indicators.macd.dif, indicators.macd.dea)

\* percent_b > 80, rsi_14 > 70 and DIF > DEA > 0
Overbought(indicators) ==
    /\ indicators.boll.present /\ IsAbove(indicators.boll.percent_b, 80)
    /\ indicators.rsi.present /\ IsAbove(indicators.rsi.rsi_14, 70)
    /\ indicators.macd.present /\ IsAbove(indicators.macd.dea, 0)
    /\ GT(indicators.macd.dif, indicators.macd.dea)

\* C10: oversold inputs give at least one bullish entry and a verdict that
\* is not bearish, overbought inputs at least one bearish entry; the
\* verdict is bullish only with at least 2 more bullish than bearish
\* entries and bearish only with at least 2 more bearish than bullish.
C10_SignalCoherence ==
    fn = "get_indicator_signals" =>
        /\ Oversold(arg.indicators) =>
              (Len(ret.bullish) >= 1 /\ ret.overall # "bearish")
        /\ Overbought(arg.indicators) => Len(ret.bearish) >= 1
        /\ ret.overall = "bullish" => Len(ret.bullish) >= Len(ret.bearish) + 2
        /\ ret.overall = "bearish" => Len(ret.bearish) >= Len(ret.bullish) + 2

C10_Witness ==
    /\ fn = "get_indicator_signals"
    /\ Oversold(arg.indicators)
    /\ arg.indicators.ma.present /\ "kongtou" \in arg.indicators.ma.trend
    /\ ret.bullish = <<"BOLL", "RSI">>
    /\ ret.bearish = <<"MACD", "MA">>
    /\ ret.overall = "neutral"

Within(x, b) == -b <= x /\ x <= b

\* C11: the score of calculate_period_score on at least 20 bars is the sum
\* of five components within BOLL +/-35, volume +/-20, RSI +/-15, MACD
\* +/-15 and MA ordering +/-15, hence an integer within [-100, 100], also
\* for not-a-number indicator values.
C11_PeriodScoreBounded ==
    fn = "calculate_period_score" =>
        /\ Within(ret.steps[1], 35)
        /\ Within(ret.steps[2] - ret.steps[1], 20)
        /\ Within(ret.steps[3] - ret.steps[2], 15)
        /\ Within(ret.steps[4] - ret.steps[3], 15)
        /\ Within(ret.steps[5] - ret.steps[4], 15)
        /\ ret.score = ret.steps[5]
        /\ ret.score \in (-100)..100

C11_Witness ==
    /\ fn = "calculate_period_score"
    /\ arg.n = 61
    /\ arg.rsi_14 = Num(10)
    /\ ret.steps = <<35, 55, 70, 85, 100>>
    /\ ret.score = 100

\* the judgments of a block
JudgmentsOf(block) == SelectSeq(ret.judgments, LAMBDA j : j.block = block)

\* C12: the score of get_period_trend_judgment is the sum of six components
\* within return +/-30, drawdown +/-20, win rate +/-15, RSI +/-15, MACD
\* crosses +/-10 and percent_b touches +/-10, hence within [-100, 100];
\* without up or down weeks the win rate is not computed and adds 0; there
\* is exactly one return judgment and one drawdown judgment.
C12_TrendJudgmentBounded ==
    fn = "get_period_trend_judgment" =>
        /\ Within(ret.steps[1], 30)
        /\ Within(ret.steps[2] - ret.steps[1], 20)
        /\ Within(ret.steps[3] - ret.steps[2], 15)
        /\ Within(ret.steps[4] - ret.steps[3], 15)
        /\ Within(ret.steps[5] - ret.steps[4], 10)
        /\ Within(ret.steps[6] - ret.steps[5], 10)
        /\ ret.score = ret.steps[6]
        /\ ret.score \in (-100)..100
        /\ arg.up_weeks + arg.down_weeks = 0 =>
              /\ ret.steps[3] = ret.steps[2]
              /\ \A i \in 1..Len(ret.judgments) :
                    ret.judgments[i].block \notin {"win_rate", "ZeroDivisionError"}
        /\ Len(JudgmentsOf("change")) = 1
        /\ Len(JudgmentsOf("drawdown")) = 1

C12_Witness ==
    /\ fn = "get_period_trend_judgment"
    /\ arg.up_weeks + arg.down_weeks = 0
    /\ arg.total_change = NaNValue
    /\ arg.max_drawdown = NaNValue
    /\ ret.steps = <<-30, -50, -50, -65, -75, -85>>
    /\ Len(ret.judgments) = 5

\* the comparisons the regime is chosen from
AboveMA20 == GT(arg.latest_price, arg.ma20)

AboveMA60 == GT(arg.latest_price, arg.ma60)

MA20AboveMA60 == GT(arg.ma20, arg.ma60)

SlopesUp == RatioGT(ret.ma20_slope, 5) /\ RatioGT(ret.ma60_slope, 0)

SlopesDown == RatioLT(ret.ma20_slope, -5) /\ RatioLT(ret.ma60_slope, 0)

MacdUp == GT(arg.dif, Num(0)) /\ GT(arg.dif, arg.dea)

MacdDown == LT(arg.dif, Num(0)) /\ LT(arg.dif, arg.dea)

\* C13: on at least 60 bars analyze_weekly_trend selects one regime, with
\* base strength 80 / 60 / -80 / -60 / 30 / -30 / 0, from the comparisons
\* of price, MA20, MA60 and the slopes; adds 15 for DIF > 0 and DIF > DEA,
\* subtracts 15 for DIF < 0 and DIF < DEA; the strength stays within
\* [-100, 100] and the operation is its >= 60 / >= 30 / <= -60 / <= -30 /
\* otherwise band.
C13_WeeklyTrendStrength ==
    fn = "analyze_weekly_trend" =>
        /\ ret.base \in {80, 60, -80, -60, 30, -30, 0}
        /\ ret.base = 80 <=> (AboveMA20 /\ AboveMA60 /\ MA20AboveMA60 /\ SlopesUp)
        /\ ret.base = 60 <=> (AboveMA20 /\ AboveMA60 /\ MA20AboveMA60 /\ ~SlopesUp)
        /\ ret.base = -80 <=>
              (~AboveMA20 /\ ~AboveMA60 /\ ~MA20AboveMA60 /\ SlopesDown)
        /\ ret.base = -60 <=>
              (~AboveMA20 /\ ~AboveMA60 /\ ~MA20AboveMA60 /\ ~SlopesDown)
        /\ ret.base = 30 <=> (AboveMA20 /\ ~MA20AboveMA60)
        /\ ret.base = -30 <=> (~AboveMA20 /\ MA20AboveMA60)
        /\ ret.trend_strength =
              ret.base + (IF MacdUp THEN 15 ELSE IF MacdDown THEN -15 ELSE 0)
        /\ ret.trend_strength \in (-100)..100
        /\ ret.operation =
              (IF ret.trend_strength >= 60 THEN "long_only"
               ELSE IF ret.trend_strength >= 30 THEN "lean_long"
               ELSE IF ret.trend_strength <= -60 THEN "stay_out"
               ELSE IF ret.trend_strength <= -30 THEN "reduce"
               ELSE "wait")

C13_Witness ==
    /\ fn = "analyze_weekly_trend"
    /\ ret.trend_type = "strong_bear"
    /\ MacdDown
    /\ ret.base = -80 /\ ret.trend_strength = -95
    /\ ret.operation = "stay_out"

RECURSIVE PointsOf(_, _)
\* the points of the first n checks that fired
PointsOf(fired, n) == IF n = 0 THEN 0 ELSE PointsOf(fired, n - 1) + fired[n].points

DailySignalCall == fn \in {"analyze_daily_buy_signals", "analyze_daily_sell_signals"}

\* C14: the signal_strength of the daily buy and sell analyses is the sum
\* of the fixed non-negative points of the checks that fired, capped at
\* 100, hence within [0, 100]; the recommendation is the >= 70 / >= 50 /
\* >= 30 / otherwise band of the capped value.
C14_SignalStrengthCapped ==
    DailySignalCall =>
        /\ \A i \in 1..Len(ret.fired) : ret.fired[i].points \in {5, 10, 15, 20, 25}
        /\ ret.uncapped = PointsOf(ret.fired, Len(ret.fired))
        /\ ret.signal_strength = (IF ret.uncapped > 100 THEN 100 ELSE ret.uncapped)
        /\ ret.signal_strength \in 0..100
        /\ ret.recommendation =
              (IF ret.signal_strength >= 70 THEN "strong"
               ELSE IF ret.signal_strength >= 50 THEN "fairly_strong"
               ELSE IF ret.signal_strength >= 30 THEN "moderate"
               ELSE "insufficient")

C14_Witness ==
    /\ fn = "analyze_daily_buy_signals"
    /\ ret.uncapped = 165
    /\ ret.signal_strength = 100
    /\ Len(ret.fired) = 11
    /\ ret.recommendation = "strong"

\* an entry price is supplied: not None and not the 0 that stands for none
EntrySupplied == arg.entry_price.st = "num" /\ arg.entry_price.v > 0

ProfitAtLeast(t) ==
    100 * (arg.latest_price.v - arg.entry_price.v) >= t * arg.entry_price.v

\* C15 (as claimed): with an entry price stop_loss is 96% of it and
\* take_profit is 110% of it for a profit >= 15%, the entry price for a
\* profit >= 10% and < 15%, absent below 10%; without an entry price both
\* are absent; a take_profit is strictly above stop_loss and strictly below
\* the latest close.
C15_ExitLevels ==
    fn = "analyze_daily_sell_signals" =>
        /\ EntrySupplied =>
              /\ ret.stop_loss.st = "num"
              /\ 100 * ret.stop_loss.v = 96 * arg.entry_price.v
              /\ ProfitAtLeast(15) =>
                    /\ ret.take_profit.st = "num"
                    /\ 100 * ret.take_profit.v = 110 * arg.entry_price.v
              /\ (ProfitAtLeast(10) /\ ~ProfitAtLeast(15)) =>
                    ret.take_profit = arg.entry_price
              /\ ~ProfitAtLeast(10) => ret.take_profit = None
        /\ ~EntrySupplied => (ret.stop_loss = None /\ ret.take_profit = None)
        /\ ret.take_profit # None =>
              /\ ret.take_profit.v > ret.stop_loss.v
              /\ ret.take_profit.v < arg.latest_price.v

\* x is y rounded to 4 decimals: a multiple of 10 units within 5 units of y
\* (y = num / 100)
IsRounded4(x, num) ==
    /\ x % 10 = 0
    /\ 100 * x - num <= 500
    /\ num - 100 * x <= 500

\* C15 (amended): with a positive entry price stop_loss is 96% of it
\* rounded to 4 decimals and take_profit is 110% of it rounded to 4
\* decimals for a profit >= 15%, the entry price itself for a profit >= 10%
\* and < 15%, absent below 10%; without an entry price both are absent; for
\* an entry price of at least 0.01 a take_profit is strictly above
\* stop_loss and strictly below the latest close.
C15_ExitLevelsRounded ==
    fn = "analyze_daily_sell_signals" =>
        /\ EntrySupplied =>
              /\ ret.stop_loss.st = "num"
              /\ IsRounded4(ret.stop_loss.v, 96 * arg.entry_price.v)
              /\ ProfitAtLeast(15) =>
                    /\ ret.take_profit.st = "num"
                    /\ IsRounded4(ret.take_profit.v, 110 * arg.entry_price.v)
              /\ (ProfitAtLeast(10) /\ ~ProfitAtLeast(15)) =>
                    ret.take_profit = arg.entry_price
              /\ ~ProfitAtLeast(10) => ret.take_profit = None
        /\ ~EntrySupplied => (ret.stop_loss = None /\ ret.take_profit = None)
        /\ (ret.take_profit # None /\ arg.entry_price.v >= 1000) =>
              /\ ret.take_profit.v > ret.stop_loss.v
              /\ ret.take_profit.v < arg.latest_price.v

C15_Witness ==
    /\ fn = "analyze_daily_sell_signals"
    /\ arg.entry_price = Num(81234)
    /\ ret.stop_loss = Num(77980)
    /\ ret.take_profit = Num(89360)

\* the window find_support_resistance looks at
LevelWindow == Tail_n(arg.df, arg.lookback)

LevelClose == LevelWindow[Len(LevelWindow)].close

\* position i of the window is a local high / low
IsLocalHigh(i) ==
    /\ i >= 3 /\ i <= Len(LevelWindow) - 2
    /\ \A k \in {i - 2, i - 1, i + 1, i + 2} : LevelWindow[i].high > LevelWindow[k].high

IsLocalLow(i) ==
    /\ i >= 3 /\ i <= Len(LevelWindow) - 2
    /\ \A k \in {i - 2, i - 1, i + 1, i + 2} : LevelWindow[i].low < LevelWindow[k].low

\* the positions whose level qualifies
ResistanceAt == {i \in 1..Len(LevelWindow) :
                    IsLocalHigh(i) /\ LevelWindow[i].high > LevelClose}

SupportAt == {i \in 1..Len(LevelWindow) :
                 IsLocalLow(i) /\ LevelWindow[i].low < LevelClose}

\* the number of positions in S whose field f has the value x
CountAt(S, f, x) == Cardinality({i \in S : LevelWindow[i][f] = x})

CountIn(s, x) == Cardinality({k \in 1..Len(s) : s[k] = x})

\* list is the (at most 3) nearest levels of the positions S, nearest first
NearestLevels(list, S, f, up) ==
    /\ Len(list) = (IF Cardinality(S) > 3 THEN 3 ELSE Cardinality(S))
    /\ \A k \in 2..Len(list) : IF up THEN list[k - 1] <= list[k]
                                ELSE list[k - 1] >= list[k]
    /\ \A k \in 1..Len(list) : CountIn(list, list[k]) <= CountAt(S, f, list[k])
    /\ \A i \in S : \/ CountIn(list, LevelWindow[i][f]) = CountAt(S, f, LevelWindow[i][f])
                    \/ IF up THEN LevelWindow[i][f] >= list[Len(list)]
                       ELSE LevelWindow[i][f] <= list[Len(list)]

NonDecreasing(s) == \A i \in 2..Len(s) : s[i - 1] <= s[i]

NonIncreasing(s) == \A i \in 2..Len(s) : s[i - 1] >= s[i]

\* C17: for closes of length >= 30 that never fall, or never rise,
\* detect_macd_divergence returns type 'none' without a strength, with the
\* daily and with the weekly lookback.
C17_MonotoneNoDivergence ==
    (/\ fn = "detect_macd_divergence"
     /\ Len(arg.close) >= 30
     /\ NonDecreasing(arg.close) \/ NonIncreasing(arg.close)) =>
        ret = [type |-> "none", strength |-> "absent"]

C17_Witness ==
    /\ fn = "detect_macd_divergence"
    /\ Len(arg.close) = 30
    /\ StrictlyIncreasing(arg.close)
    /\ arg.period_type = "weekly"
    /\ arg.dif[30] < arg.dif[29]
    /\ ret.type = "none"

(***************************************************************************)
(* C18.  After every _merge_and_update_csv the stored and the returned     *)
(* series are the same, have strictly increasing dates (so no duplicate    *)
(* date), hold every date of the store before the merge and of the merged  *)
(* batch, and for a date of the batch hold the bar the batch gives last    *)
(* for it, while a stored bar whose date the batch lacks is kept.          *)
(***************************************************************************)
StrictlyIncreasingDates(df) ==
    \A i \in 1..Len(df) - 1 : df[i].date < df[i + 1].date

\* the bar a frame gives last for a date
LastBarOf(df, d) ==
    df[CHOOSE i \in 1..Len(df) :
         /\ df[i].date = d
         /\ \A j \in i + 1..Len(df) : df[j].date # d]

BarsOf(df) == {df[i] : i \in 1..Len(df)}

MergedLastWins(existing_df, new_df, merged) ==
    /\ Dates(merged) = Dates(existing_df) \cup Dates(new_df)
    /\ \A d \in Dates(new_df) : LastBarOf(new_df, d) \in BarsOf(merged)
    /\ \A d \in Dates(existing_df) \ Dates(new_df) :
          LastBarOf(existing_df, d) \in BarsOf(merged)

C18_StoreSortedLastWins ==
    fn = "_merge_and_update_csv" =>
        /\ ret = csv
        /\ StrictlyIncreasingDates(csv)
        /\ MergedLastWins(arg.existing_df, arg.new_df, csv)

(***************************************************************************)
(* C19.  A get(k, ttl) at time t' after a set(k, v) at time t, with no     *)
(* later set(k, .) or clear(), returns v when t' - t <= ttl and returns    *)
(* None and leaves no entry when t' - t > ttl; and a get_cached_etf_spot   *)
(* made within 60 seconds of the fetch that filled the cache, with no      *)
(* clear in between, makes no upstream call, while one that finds no       *)
(* usable entry makes exactly one.                                          *)
(***************************************************************************)
GetFollowsSet(entry) ==
    entry.present =>
        IF arg.now - entry.time <= arg.max_age_seconds
        THEN ret = Hit(entry.value)
        ELSE ret = Miss /\ ~cache[arg.key].present

SpotFetchedOnce ==
    IF arg.written.present /\ arg.now - arg.written.time <= CACHE_TTL.etf_spot
    THEN calls = <<>> /\ ret = [raised |-> FALSE, value |-> arg.written.value]
    ELSE calls = <<"fund_etf_spot_em">>

C19_CacheTtl ==
    /\ fn = "get" => GetFollowsSet(arg.written)
    /\ fn = "get_cached_etf_spot" => SpotFetchedOnce

(***************************************************************************)
(* C19, amended.  The same, for a set(k, v) that no later set(k, .),       *)
(* clear() or get(k, .) that found the entry expired has followed: the     *)
(* entry written is then the entry the cache still holds.  A get that      *)
(* finds no entry returns None.                                             *)
(***************************************************************************)
C19_CacheTtlUnlessDropped ==
    /\ fn = "get" =>
          /\ arg.entry = arg.written => GetFollowsSet(arg.written)
          /\ ~arg.entry.present => ret = Miss
          /\ arg.entry.present => arg.entry = arg.written
    /\ fn = "get_cached_etf_spot" => SpotFetchedOnce

C19_Witness ==
    /\ fn = "get_cached_etf_spot"
    /\ arg.written.present
    /\ arg.now > arg.written.time
    /\ arg.now - arg.written.time <= CACHE_TTL.etf_spot
    /\ calls = <<>>
    /\ ret.value = arg.written.value

(***************************************************************************)
(* C20.  get_etf_hist_data asks the provider only for days of the          *)
(* requested range that the store does not hold, and a request for a range *)
(* that an earlier request has already answered and stored, made after the *)
(* memory entry expired, is answered from the CSV store with no provider   *)
(* request.                                                                 *)
(***************************************************************************)
HistServedFromMemory ==
    arg.entry.present /\ arg.now - arg.entry.time <= CACHE_TTL.etf_hist

AnsweredFromStore ==
    /\ calls = <<>>
    /\ csv = arg.csv
    /\ ret = [raised |-> FALSE, value |-> filter_range(arg.csv, arg.start_date, arg.end_date)]

C20_RepeatedRangeFromStore ==
    fn = "get_etf_hist_data" =>
        /\ \A i \in 1..Len(calls) : \A d \in calls[i][2]..calls[i][3] :
              d \in arg.start_date..arg.end_date /\ d \notin Dates(arg.csv)
        /\ arg.written.present /\ ~HistServedFromMemory => AnsweredFromStore

(***************************************************************************)
(* C20, amended.  Past the memory cache, get_etf_hist_data asks the        *)
(* provider only for days before the first or after the last stored bar,   *)
(* and a non-empty store answers alone exactly when the range starts no    *)
(* earlier than its first bar and ends no later than one day after its     *)
(* last bar; with an empty store the provider is asked for the whole       *)
(* range.                                                                   *)
(***************************************************************************)
StoreSpans(csv_df, query_start, query_end) ==
    /\ Len(csv_df) > 0
    /\ MinDate(csv_df) <= query_start
    /\ query_end <= MaxDateOf(csv_df) + 1

C20_StoreAnswersSpannedRange ==
    fn = "get_etf_hist_data" =>
        IF HistServedFromMemory
        THEN calls = <<>> /\ csv = arg.csv /\ ret = [raised |-> FALSE, value |-> arg.entry.value]
        ELSE /\ \A i \in 1..Len(calls) : \A d \in calls[i][2]..calls[i][3] :
                  Len(arg.csv) > 0 => d < MinDate(arg.csv) \/ d > MaxDateOf(arg.csv)
             /\ Len(arg.csv) = 0 =>
                  calls = <<<<"fund_etf_hist_em", arg.start_date, arg.end_date>>>>
             /\ Len(arg.csv) > 0 =>
                  (calls = <<>> <=> StoreSpans(arg.csv, arg.start_date, arg.end_date))
             /\ StoreSpans(arg.csv, arg.start_date, arg.end_date) => AnsweredFromStore

C20_Witness ==
    /\ fn = "get_etf_hist_data"
    /\ arg.written.present
    /\ arg.entry.present
    /\ arg.now - arg.entry.time > CACHE_TTL.etf_hist
    /\ arg.end_date > MaxDateOf(arg.csv)
    /\ AnsweredFromStore
    /\ Len(ret.value) > 1

(***************************************************************************)
(* C21.  clear_data_cache leaves the memory cache with 0 entries and       *)
(* reports the number of entries held before, and the data request that    *)
(* follows it (spot quotes or historical bars) calls the provider.         *)
(***************************************************************************)
DataRequests == {"get_cached_etf_spot", "get_etf_hist_data"}

ClearedThenRequested ==
    /\ fn' = "clear_data_cache" =>
          cache_size(cache') = 0 /\ ret'.cache_size = cache_size(cache)
    /\ fn = "clear_data_cache" /\ fn' \in DataRequests => calls' # <<>>

C21_ClearForcesUpstream == [][ClearedThenRequested]_vars

(***************************************************************************)
(* C22.  detect_bullish_candle_pattern returns None on fewer than three    *)
(* bars or when no pattern holds, and otherwise the description of the     *)
(* last pattern that holds in the order hammer, engulfing, morning star.   *)
(***************************************************************************)
CandleCall == fn = "detect_bullish_candle_pattern"

LastBars(k) == arg.df[Len(arg.df) - 3 + k]

HammerHolds == candle_hammer(LastBars(3))

EngulfingHolds == candle_engulfing(LastBars(2), LastBars(3))

MorningStarHolds == candle_morning_star(LastBars(1), LastBars(2), LastBars(3))

C22_LastPatternWins ==
    CandleCall =>
        IF Len(arg.df) < 3 THEN ret.kind = "None"
        ELSE IF MorningStarHolds THEN ret = [kind |-> "pattern", detail |-> "morning_star"]
        ELSE IF EngulfingHolds THEN ret = [kind |-> "pattern", detail |-> "engulfing"]
        ELSE IF HammerHolds THEN ret = [kind |-> "pattern", detail |-> "hammer"]
        ELSE ret.kind = "None"

(***************************************************************************)
(* C23.  The morning star is reported only when the first of the last      *)
(* three bars is bearish with a body of at least 70% of its range, the     *)
(* middle bar's body is below 30% of the first bar's range, and the third  *)
(* bar is bullish and closes above the midpoint of the first bar's body.   *)
(***************************************************************************)
BodyOf(c) == IF c.close >= c.open THEN c.close - c.open ELSE c.open - c.close

C23_MorningStarConditions ==
    CandleCall /\ ret.detail = "morning_star" =>
        /\ Len(arg.df) >= 3
        /\ LastBars(1).close < LastBars(1).open
        /\ BodyOf(LastBars(1)) * 10 >= (LastBars(1).high - LastBars(1).low) * 7
        /\ BodyOf(LastBars(2)) * 10 < (LastBars(1).high - LastBars(1).low) * 3
        /\ LastBars(3).close > LastBars(3).open
        /\ LastBars(3).close * 2 > LastBars(1).open + LastBars(1).close

(***************************************************************************)
(* C24.  When detect_macd_divergence reports a divergence, strength is     *)
(* 'strong' exactly when the DIF at the later of the two most recent price *)
(* extrema differs from the DIF at the earlier one by more than 20% of the *)
(* earlier value's magnitude, in the direction of the divergence.          *)
(***************************************************************************)
RecentClose == Tail_n(arg.close, divergence_lookback(arg.period_type))

RecentDif == Tail_n(arg.dif, divergence_lookback(arg.period_type))

\* positions of the local highs (lows) of the recent closes, ascending
RecentHighs == {i \in 1..Len(RecentClose) : divergence_high_at(RecentClose, i)}

RecentLows == {i \in 1..Len(RecentClose) : divergence_low_at(RecentClose, i)}

Latest(S) == CHOOSE i \in S : \A j \in S : j <= i

Magnitude(x) == IF x < 0 THEN -x ELSE x

EarlierDifAt(S) == RecentDif[Latest(S \ {Latest(S)})]

LaterDifAt(S) == RecentDif[Latest(S)]

HistoryCall == fn = "analyze_historical_indicators"

SignChanges(sgn, from, to) ==
    Cardinality({i \in 2..Len(sgn) : sgn[i - 1] = from /\ sgn[i] = to})

C25_CrossesAreSignChanges ==
    HistoryCall =>
        /\ ret.stats.macd_cross_up = SignChanges(ret.stats.macd_sign, -1, 1)
        /\ ret.stats.macd_cross_down = SignChanges(ret.stats.macd_sign, 1, -1)

(***************************************************************************)
(* C26.  Every target listed by screen_swing_opportunities was analysed    *)
(* without error, has a weekly trend_strength of at least 30 and at least  *)
(* one daily buy signal (signal_strength above 0, signals not empty).      *)
(***************************************************************************)
C26_ListedMeetBothConditions ==
    fn = "screen_swing_opportunities" =>
        \A k \in 1..Len(ret.opportunities) :
            LET e == ret.opportunities[k]
            IN  /\ arg.outcomes[e.target].stage = "analysed"
                /\ e.trend_strength >= 30
                /\ e.buy_strength > 0
                /\ e.signals # <<>>

(***************************************************************************)
(* C27.  With finite MA20 and MA60, analyze_weekly_trend on at least 60    *)
(* bars never reports the ranging regime: the base strength is never 0,    *)
(* the final trend_strength is never 0 and has the sign of the regime      *)
(* (positive for strong bull, bull and bottom reversing, negative for      *)
(* strong bear, bear and top pulling back) after the MACD adjustment, its  *)
(* magnitude is at most 95, and the clamp to [-100, 100] leaves the        *)
(* adjusted value as it is.                                                *)
(***************************************************************************)
FiniteAverages == arg.ma20.st = "num" /\ arg.ma60.st = "num"

C27_NeverRanging ==
    (fn = "analyze_weekly_trend" /\ FiniteAverages) =>
        /\ ret.trend_type # "ranging"
        /\ ret.base # 0
        /\ ret.trend_strength # 0
        /\ ret.trend_type \in {"strong_bull", "bull", "bottom_reversing"}
              <=> ret.trend_strength > 0
        /\ ret.trend_type \in {"strong_bear", "bear", "top_pulling_back"}
              <=> ret.trend_strength < 0
        /\ ret.trend_strength >= -95 /\ ret.trend_strength <= 95
        /\ ret.trend_strength =
              ret.base + (IF MacdUp THEN 15 ELSE IF MacdDown THEN -15 ELSE 0)

\* price, MA20 and MA60 all equal, momentum up: a bear regime at -45
C27_Witness ==
    /\ fn = "analyze_weekly_trend"
    /\ FiniteAverages
    /\ arg.latest_price = arg.ma20 /\ arg.ma20 = arg.ma60
    /\ MacdUp
    /\ ret.trend_type = "bear" /\ ret.trend_strength = -45

\* the adjustment against the regime: bottom reversing with momentum down
C27_WitnessWeakest ==
    /\ fn = "analyze_weekly_trend"
    /\ FiniteAverages
    /\ ret.trend_type = "bottom_reversing" /\ MacdDown
    /\ ret.trend_strength = 15

(***************************************************************************)
(* C28.  In analyze_historical_indicators DIF - DEA is 0 at the first bar  *)
(* of the window.  When it is nonzero at every later bar, the counted      *)
(* golden and death crosses alternate, so macd_cross_up and                *)
(* macd_cross_down differ by at most 1, and get_period_trend_judgment      *)
(* adds no MACD-cross judgment for these statistics.                       *)
(***************************************************************************)
LaterSignsNonzero ==
    \A i \in 2..Len(ret.stats.macd_sign) : ret.stats.macd_sign[i] # 0

\* the positions at which DIF - DEA moves above, resp. below, DEA
GoldenAt == {i \in 2..Len(ret.stats.macd_sign) :
                ret.stats.macd_sign[i] > 0 /\ ret.stats.macd_sign[i - 1] <= 0}

DeathAt == {i \in 2..Len(ret.stats.macd_sign) :
               ret.stats.macd_sign[i] < 0 /\ ret.stats.macd_sign[i - 1] >= 0}

CrossesAlternate ==
    /\ \A i, j \in GoldenAt : i < j => \E k \in DeathAt : i < k /\ k < j
    /\ \A i, j \in DeathAt : i < j => \E k \in GoldenAt : i < k /\ k < j

C28_CrossesAlternate ==
    (HistoryCall /\ Len(ret.stats.macd_sign) >= 1) =>
        /\ ret.stats.macd_sign[1] = 0
        /\ LaterSignsNonzero =>
              /\ ret.stats.macd_cross_up = Cardinality(GoldenAt)
              /\ ret.stats.macd_cross_down = Cardinality(DeathAt)
              /\ CrossesAlternate
              /\ ret.stats.macd_cross_up - ret.stats.macd_cross_down \in {-1, 0, 1}
              /\ \A k \in 1..Len(ret.judgments) : ret.judgments[k].block # "macd"

\* a window of nonzero DIF - DEA with several crosses of both kinds
C28_Witness ==
    /\ HistoryCall
    /\ Len(ret.stats.macd_sign) >= 13
    /\ LaterSignsNonzero
    /\ ret.stats.macd_cross_up >= 2
    /\ ret.stats.macd_cross_down >= 2

(***************************************************************************)
(* C29.  analyze_historical_indicators computes RSI(14) and BOLL(20) on    *)
(* the trailing window only.  For a window of 13 or fewer bars it reports  *)
(* rsi_oversold_count = rsi_overbought_count = 0, pb_near_lower =          *)
(* pb_near_upper = 0, an undefined RSI average and no defined percent_b,   *)
(* and get_period_trend_judgment adds neither an RSI nor a percent_b       *)
(* judgment; for a window of fewer than 20 bars the same holds for the     *)
(* percent_b counts and judgment.                                          *)
(***************************************************************************)
NoJudgmentOf(block) ==
    \A k \in 1..Len(ret.judgments) : ret.judgments[k].block # block

NoPercentB ==
    /\ ret.stats.pb_valid = 0
    /\ ret.stats.pb_near_lower = 0
    /\ ret.stats.pb_near_upper = 0
    /\ NoJudgmentOf("boll")

NoRsi ==
    /\ ret.stats.rsi_oversold_count = 0
    /\ ret.stats.rsi_overbought_count = 0
    /\ ret.stats.rsi_avg = NaNValue
    /\ NoJudgmentOf("rsi")

C29_ShortWindowHasNoRsiNoPercentB ==
    HistoryCall =>
        /\ ret.stats.weeks <= 13 => (NoRsi /\ NoPercentB)
        /\ ret.stats.weeks < 20 => NoPercentB

\* the 13-bar window of a longer frame whose closes rise and fall
C29_Witness ==
    /\ HistoryCall
    /\ arg.weeks = 13 /\ ret.stats.weeks = 13
    /\ Len(arg.close) >= 20
    /\ ret.stats.macd_cross_up >= 1 /\ ret.stats.macd_cross_down >= 1
    /\ NoRsi /\ NoPercentB

(***************************************************************************)
(* C30.  After any sequence of DataCache set, get and clear calls made one *)
(* at a time, the value dictionary and the timestamp dictionary have the   *)
(* same keys.  A get therefore never finds a stored key without a          *)
(* timestamp and never raises; the get that finds an entry expired returns *)
(* None and removes the key from both dictionaries; stats().cache_size is  *)
(* the number of stored entries, expired ones included.                    *)
(***************************************************************************)
C30_SameKeySets ==
    /\ DOMAIN dcache = DOMAIN timestamps
    /\ fn = "DataCache.get" =>
          /\ ret.kind = "return"
          /\ arg.held => arg.stamped
          /\ (arg.held /\ arg.expired) =>
                /\ ret.value = Miss
                /\ arg.key \notin DOMAIN dcache
                /\ arg.key \notin DOMAIN timestamps
          /\ (arg.held /\ ~arg.expired) =>
                /\ ret.value.hit
                /\ arg.key \in DOMAIN dcache
    /\ fn = "DataCache.stats" =>
          /\ ret.cache_size = Cardinality(DOMAIN dcache)
          /\ ret.keys = DOMAIN dcache

\* a get evicts an expired entry while the other entry, as old, stays stored
C30_Witness ==
    /\ fn = "DataCache.get"
    /\ arg.held /\ arg.expired
    /\ \E k \in DOMAIN dcache : now - timestamps[k] > CACHE_TTL.etf_spot
====
